---- MODULE Spec2Model ----
(***************************************************************************)
(* LibCST matchers (libcst/matchers/_matcher_base.py): the matcher value   *)
(* model, its builders (OneOf, AllOf, DoesNotMatch, SaveMatchedNode,       *)
(* AtLeastN, AtMostN) and the matching functions (_sequence_matches,       *)
(* _attribute_matches, _metadata_matches, _node_matches, _matches,         *)
(* extract, matches, findall, extractall).                                 *)
(*                                                                         *)
(* Every Python value is a record with a field k holding its class:        *)
(*   CSTNode (cls, id, attrs)   a tree node; id is its reference identity  *)
(*   MaybeSentinel, RemovalSentinel, NoneType                              *)
(*   str (s: the characters), bool (b), list (items)                       *)
(* and every matcher likewise:                                             *)
(*   Matcher (cls, attrs)  a concrete matcher class instance (dataclass)   *)
(*   DoNotCareSentinel, OneOf (options), AllOf (options),                  *)
(*   _InverseOf (matcher), _ExtractMatchingNode (matcher, name),           *)
(*   MatchIfTrue (func), MatchMetadata (key, value),                       *)
(*   MatchMetadataIfTrue (key, func), AtLeastN / AtMostN (matcher, n).     *)
(* A return value of a matching function is a record                       *)
(*   [st, cap, calls]: st = "match" (a dict, cap), "nomatch" (None) or     *)
(*   "raise" (an exception left the function); calls is the set of         *)
(*   callback kinds invoked on the way ("func", "metafunc", "lookup").     *)
(* findall and extractall return [st |-> "return", value]: value is the    *)
(* sequence of nodes or of capture maps.  While they traverse the tree,    *)
(* finder is the _FindAllVisitor, pending the nodes still to visit and     *)
(* visited the nodes on_visit was called with.                             *)
(* The fetcher _construct_metadata_fetcher_wrapper returns keeps its cache *)
(* in fetcher_metadata; resolve_calls lists the providers wrapper.resolve  *)
(* was called with, and fetch_provider is the provider of the last fetch.  *)
(***************************************************************************)
EXTENDS Integers, Sequences, FiniteSets, TLC

VARIABLES node, matcher, metadata_resolver, fn, ret, built, operand, operandRet,
          finder, pending, visited, fetcher_metadata, resolve_calls,
          fetch_provider

vars == <<node, matcher, metadata_resolver, fn, ret, built, operand, operandRet,
          finder, pending, visited, fetcher_metadata, resolve_calls,
          fetch_provider>>

RECURSIVE CallFunc(_, _)
RECURSIVE FlattenOptions(_, _)
RECURSIVE DoesNotMatch(_)
RECURSIVE InvertAll(_)
RECURSIVE Invoke(_, _)
RECURSIVE Unwrap(_)
RECURSIVE Derived(_, _, _)
RECURSIVE Aligns(_, _)
RECURSIVE OptionCaptures(_)
RECURSIVE FieldCaptures(_)
RECURSIVE PreOrderAll(_)
RECURSIVE ChildrenFrom(_, _)
RECURSIVE Size(_)
RECURSIVE SizeAll(_)
RECURSIVE LambdaDepth(_)

----------------------------------------------------------------------------
(* Bounds of the model *)

\* longest value sequence drawn in Init
MaxLen == 3

\* longest quantifier-free pattern list drawn in Init
MaxPat == 2

\* largest n of a quantifier drawn in Init
MaxN == 2

\* largest number of leaves and wrappers of a matcher that is built
MaxBuild == 3

----------------------------------------------------------------------------
(* Return values *)

EmptyCap == [x \in {} |-> 0]

Match(cap, calls) == [st |-> "match", cap |-> cap, calls |-> calls]

NoMatch(calls) == [st |-> "nomatch", cap |-> EmptyCap, calls |-> calls]

Raise(calls) == [st |-> "raise", cap |-> EmptyCap, calls |-> calls]

\* a result with the callbacks made before it was computed
After(calls, r) == [r EXCEPT !.calls = @ \cup calls]

\* {**b, **a}: a wins on a shared key
Merge_earlier(a, b) ==
    [x \in DOMAIN a \cup DOMAIN b |-> IF x \in DOMAIN a THEN a[x] ELSE b[x]]

\* {**a, **b}: b wins on a shared key
Merge(a, b) ==
    [x \in DOMAIN a \cup DOMAIN b |-> IF x \in DOMAIN b THEN b[x] ELSE a[x]]

\* {name: value}
Single(name, value) == [x \in {name} |-> value]

\* not yet called
Unset == [st |-> "unset", cap |-> EmptyCap, calls |-> {}]

----------------------------------------------------------------------------
(* Python values *)

Str(s) == [k |-> "str", s |-> s]

None == [k |-> "NoneType"]

MaybeSentinel == [k |-> "MaybeSentinel"]

RemovalSentinel == [k |-> "RemovalSentinel"]

List(items) == [k |-> "list", items |-> items]

CSTNode(cls, id, attrs) == [k |-> "CSTNode", cls |-> cls, id |-> id, attrs |-> attrs]

\* isinstance(x, collections.abc.Sequence): lists, tuples and str
IsSequence(x) == x.k \in {"list", "str"}

\* the elements of a Python sequence; those of a str are its characters
Items(x) == IF x.k = "str" THEN [i \in DOMAIN x.s |-> Str(<<x.s[i]>>)] ELSE x.items

\* x.__class__.__name__
ClassName(x) == IF x.k \in {"CSTNode", "Matcher"} THEN x.cls ELSE x.k

\* dataclasses.fields(matcher) of the generated matcher classes, in order
Fields(cls) ==
    IF cls = "Call" THEN <<"func", "args", "metadata">> ELSE <<"value", "metadata">>

----------------------------------------------------------------------------
(* Callables given to MatchIfTrue and MatchMetadataIfTrue.  A user callable *)
(* is named; the lambda built by __invert__ wraps the callable it negates.  *)

UserFunc(name) == [k |-> "function", name |-> name]

\* lambda val: not self._func(val)
LambdaNot(func) == [k |-> "lambda_not", func |-> func]

\* func(val), for total callables that do not raise
CallFunc(func, val) ==
    IF func.k = "lambda_not" THEN ~CallFunc(func.func, val)
    ELSE IF func.name = "is_Name" THEN val.k = "CSTNode" /\ val.cls = "Name"
    ELSE IF func.name = "is_LOAD" THEN val.k = "ExpressionContext" /\ val.v = "LOAD"
    ELSE IF func.name = "nonempty" THEN IsSequence(val) /\ Items(val) # <<>>
    ELSE FALSE

----------------------------------------------------------------------------
(* Matcher values and their builders *)

\* an exception raised by a builder
ConstructionError == [k |-> "Exception"]

IsError(m) == m.k = "Exception"

DoNotCare == [k |-> "DoNotCareSentinel"]

\* an instance of a generated concrete matcher class; attrs gives every field
Matcher(cls, attrs) == [k |-> "Matcher", cls |-> cls, attrs |-> attrs]

\* FlattenOptions without lines 138-139: an option of the same kind is kept whole
FlattenOptions_nested(options, kind) == options

FlattenOptions(options, kind) ==
    IF options = <<>> THEN <<>>
    ELSE (IF Head(options).k = kind THEN Head(options).options ELSE <<Head(options)>>)
         \o FlattenOptions(Tail(options), kind)

OneOf(options) ==
    IF \E i \in DOMAIN options : IsError(options[i]) THEN ConstructionError
    ELSE IF \E i \in DOMAIN options : options[i].k = "AllOf" THEN ConstructionError
    ELSE [k |-> "OneOf", options |-> FlattenOptions(options, "OneOf")]

AllOf(options) ==
    IF \E i \in DOMAIN options : IsError(options[i]) THEN ConstructionError
    ELSE IF \E i \in DOMAIN options : options[i].k = "OneOf" THEN ConstructionError
    ELSE [k |-> "AllOf", options |-> FlattenOptions(options, "AllOf")]

_InverseOf(m) == [k |-> "_InverseOf", matcher |-> m]

_ExtractMatchingNode(m, name) ==
    [k |-> "_ExtractMatchingNode", matcher |-> m, name |-> name]

MatchIfTrue(func) == [k |-> "MatchIfTrue", func |-> func]

MatchMetadata(key, value) == [k |-> "MatchMetadata", key |-> key, value |-> value]

MatchMetadataIfTrue(key, func) ==
    [k |-> "MatchMetadataIfTrue", key |-> key, func |-> func]

AtLeastN(m, n) ==
    IF n < 0 THEN ConstructionError ELSE [k |-> "AtLeastN", matcher |-> m, n |-> n]

AtMostN(m, n) ==
    IF n < 0 THEN ConstructionError ELSE [k |-> "AtMostN", matcher |-> m, n |-> n]

ZeroOrMore(m) == AtLeastN(m, 0)

SaveMatchedNode(m, name) == _ExtractMatchingNode(m, name)

\* [DoesNotMatch(m) for m in self._options]
InvertAll(options) ==
    IF options = <<>> THEN <<>>
    ELSE <<DoesNotMatch(Head(options))>> \o InvertAll(Tail(options))

\* ~m where the __invert__ of _InverseOf returns the _InverseOf itself
Invert_same(m) ==
    IF m.k = "Matcher" THEN _InverseOf(m)
    ELSE IF m.k = "OneOf" THEN AllOf(InvertAll(m.options))
    ELSE IF m.k = "AllOf" THEN OneOf(InvertAll(m.options))
    ELSE IF m.k = "_InverseOf" THEN m
    ELSE IF m.k = "MatchIfTrue" THEN MatchIfTrue(LambdaNot(m.func))
    ELSE IF m.k = "MatchMetadata" THEN _InverseOf(m)
    ELSE IF m.k = "MatchMetadataIfTrue" THEN MatchMetadataIfTrue(m.key, LambdaNot(m.func))
    ELSE ConstructionError

\* ~m where OneOf and AllOf invert their options and keep their own class
Invert_kept(m) ==
    IF m.k = "Matcher" THEN _InverseOf(m)
    ELSE IF m.k = "OneOf" THEN OneOf(InvertAll(m.options))
    ELSE IF m.k = "AllOf" THEN AllOf(InvertAll(m.options))
    ELSE IF m.k = "_InverseOf" THEN m.matcher
    ELSE IF m.k = "MatchIfTrue" THEN MatchIfTrue(LambdaNot(m.func))
    ELSE IF m.k = "MatchMetadata" THEN _InverseOf(m)
    ELSE IF m.k = "MatchMetadataIfTrue" THEN MatchMetadataIfTrue(m.key, LambdaNot(m.func))
    ELSE ConstructionError

\* ~m: the __invert__ of m's class
Invert(m) ==
    IF m.k = "Matcher" THEN _InverseOf(m)
    ELSE IF m.k = "OneOf" THEN AllOf(InvertAll(m.options))
    ELSE IF m.k = "AllOf" THEN OneOf(InvertAll(m.options))
    ELSE IF m.k = "_InverseOf" THEN m.matcher
    ELSE IF m.k = "MatchIfTrue" THEN MatchIfTrue(LambdaNot(m.func))
    ELSE IF m.k = "MatchMetadata" THEN _InverseOf(m)
    ELSE IF m.k = "MatchMetadataIfTrue" THEN MatchMetadataIfTrue(m.key, LambdaNot(m.func))
    ELSE ConstructionError

\* DoesNotMatch that wraps every object in an _InverseOf
DoesNotMatch_wrapped(obj) == IF IsError(obj) THEN ConstructionError ELSE _InverseOf(obj)

DoesNotMatch(obj) ==
    IF IsError(obj) THEN ConstructionError
    ELSE IF obj.k \in {"Matcher", "OneOf", "AllOf", "MatchIfTrue", "MatchMetadata",
                       "MatchMetadataIfTrue", "_InverseOf", "_ExtractMatchingNode"}
    THEN Invert(obj)
    ELSE _InverseOf(obj)

\* a | b: the __or__ of a's class; no class defines a reflected operator, so an
\* a without __or__ (DoNotCareSentinel, str) gives TypeError
__or__(a, b) ==
    IF a.k \in {"Matcher", "OneOf", "_InverseOf", "_ExtractMatchingNode",
                "MatchIfTrue", "MatchMetadata", "MatchMetadataIfTrue"}
    THEN OneOf(<<a, b>>)
    ELSE ConstructionError

\* a & b: the __and__ of a's class
__and__(a, b) ==
    IF a.k \in {"Matcher", "AllOf", "_InverseOf", "MatchIfTrue", "MatchMetadata",
                "MatchMetadataIfTrue"}
    THEN AllOf(<<a, b>>)
    ELSE ConstructionError

----------------------------------------------------------------------------
(* Metadata resolution *)

_METADATA_MISSING_SENTINEL == [k |-> "_METADATA_MISSING_SENTINEL"]

_construct_metadata_fetcher_null == [k |-> "null"]

\* the fetcher closes over the wrapper, whose tables map node ids to values
_construct_metadata_fetcher_wrapper(wrapper) == [k |-> "wrapper", tables |-> wrapper.tables]

\* the fetcher closes over the dependent, which answers get_metadata
_construct_metadata_fetcher_dependent(dependent_class) ==
    [k |-> "dependent", tables |-> dependent_class.tables]

\* Fetch with a null fetcher that returns None instead of the sentinel of line 55
Fetch_none(metadata_lookup, provider, n) ==
    IF metadata_lookup.k = "null" THEN None
    ELSE IF provider \in DOMAIN metadata_lookup.tables
            /\ n.k = "CSTNode"
            /\ n.id \in DOMAIN metadata_lookup.tables[provider]
    THEN metadata_lookup.tables[provider][n.id]
    ELSE _METADATA_MISSING_SENTINEL

\* metadata_lookup(provider, node)
Fetch(metadata_lookup, provider, n) ==
    IF metadata_lookup.k = "null" THEN _METADATA_MISSING_SENTINEL
    ELSE IF provider \in DOMAIN metadata_lookup.tables
            /\ n.k = "CSTNode"
            /\ n.id \in DOMAIN metadata_lookup.tables[provider]
    THEN metadata_lookup.tables[provider][n.id]
    ELSE _METADATA_MISSING_SENTINEL

----------------------------------------------------------------------------
(* Matching.  The functions are mutually recursive: a call of one by       *)
(* another is written Invoke("f", <<args>>).                               *)

\* _sequence_matches_base without the check of lines 960-962: nodes that no
\* matcher is left for are accepted
_sequence_matches_base_leftover(nodes, matchers) ==
    IF matchers = <<>> THEN Match(EmptyCap, {})
    ELSE IF nodes = <<>> THEN
        IF \A i \in DOMAIN matchers :
              \/ (matchers[i].k = "AtLeastN" /\ matchers[i].n = 0)
              \/ matchers[i].k = "AtMostN"
        THEN Match(EmptyCap, {})
        ELSE NoMatch({})
    ELSE NoMatch({})

\* _sequence_matches_base without the test m.n == 0 of lines 952-954: every
\* remaining AtLeastN is taken to be satisfied
_sequence_matches_base_anycount(nodes, matchers) ==
    IF nodes = <<>> /\ matchers = <<>> THEN Match(EmptyCap, {})
    ELSE IF nodes = <<>> THEN
        IF \A i \in DOMAIN matchers : matchers[i].k \in {"AtLeastN", "AtMostN"}
        THEN Match(EmptyCap, {})
        ELSE NoMatch({})
    ELSE NoMatch({})

\* lines 947-962: nodes or matchers is exhausted
_sequence_matches_base(nodes, matchers) ==
    IF nodes = <<>> /\ matchers = <<>> THEN Match(EmptyCap, {})
    ELSE IF nodes = <<>> THEN
        IF \A i \in DOMAIN matchers :
              \/ (matchers[i].k = "AtLeastN" /\ matchers[i].n = 0)
              \/ matchers[i].k = "AtMostN"
        THEN Match(EmptyCap, {})
        ELSE NoMatch({})
    ELSE NoMatch({})

\* lines 975-985, 995-1017 where the quantifier never takes nodes[0]
Greedy_skipped(nodes, matchers, next_matchers, metadata_lookup) == NoMatch({})

\* lines 975-985, 995-1005, 1009-1017: the quantifier matchers[0] consumes nodes[0]
\* and next_matchers match the remaining nodes
Greedy(nodes, matchers, next_matchers, metadata_lookup) ==
    LET attribute_capture ==
            Invoke("_attribute_matches",
                   <<Head(nodes), Head(matchers).matcher, metadata_lookup>>)
    IN  IF attribute_capture.st = "match" THEN
            LET sequence_capture ==
                    Invoke("_sequence_matches",
                           <<Tail(nodes), next_matchers, metadata_lookup>>)
            IN  IF sequence_capture.st = "match"
                THEN Match(Merge(attribute_capture.cap, sequence_capture.cap),
                           attribute_capture.calls \cup sequence_capture.calls)
                ELSE After(attribute_capture.calls, sequence_capture)
        ELSE attribute_capture

\* Lazy without the second attempt: a quantifier that cannot take nodes[0] fails
Lazy_skipped(nodes, matchers, calls, metadata_lookup) == NoMatch(calls)

\* lines 986-990, 1018-1024: the quantifier matchers[0] is dropped, nodes[0] kept
Lazy(nodes, matchers, calls, metadata_lookup) ==
    After(calls, Invoke("_sequence_matches", <<nodes, Tail(matchers), metadata_lookup>>))

\* lines 1043-1051: nodes[0] is matched by matchers[0], the rest by the rest
Direct(nodes, matchers, calls, metadata_lookup) ==
    LET match_capture ==
            Invoke("_matches", <<Head(nodes), Head(matchers), metadata_lookup>>)
    IN  IF match_capture.st = "match" THEN
            LET sequence_capture ==
                    Invoke("_sequence_matches",
                           <<Tail(nodes), Tail(matchers), metadata_lookup>>)
            IN  IF sequence_capture.st = "match"
                THEN Match(Merge(match_capture.cap, sequence_capture.cap),
                           calls \cup match_capture.calls \cup sequence_capture.calls)
                ELSE After(calls \cup match_capture.calls, sequence_capture)
        ELSE After(calls, match_capture)

\* lines 1029-1041 where the capture saves nodes[0] instead of nodes
Captured_head(nodes, matchers, metadata_lookup) ==
    LET m0 == Head(matchers)
        sequence_capture ==
            Invoke("_sequence_matches",
                   <<nodes, <<m0.matcher>> \o Tail(matchers), metadata_lookup>>)
    IN  IF sequence_capture.st = "match"
        THEN Match(Merge(Single(m0.name, Head(nodes)), sequence_capture.cap),
                   sequence_capture.calls)
        ELSE sequence_capture

\* lines 1029-1041: the capture matchers[0] is replaced by what it wraps, and the
\* nodes that were left when it was met are saved under its name
Captured(nodes, matchers, metadata_lookup) ==
    LET m0 == Head(matchers)
        sequence_capture ==
            Invoke("_sequence_matches",
                   <<nodes, <<m0.matcher>> \o Tail(matchers), metadata_lookup>>)
    IN  IF sequence_capture.st = "match"
        THEN Match(Merge(Single(m0.name, List(nodes)), sequence_capture.cap),
                   sequence_capture.calls)
        ELSE sequence_capture

\* a branch that returns nothing falls through to the code after the if/elif chain
_sequence_matches(nodes, matchers, metadata_lookup) ==
    IF nodes = <<>> \/ matchers = <<>> THEN _sequence_matches_base(nodes, matchers)
    ELSE
      LET m0 == Head(matchers)
      IN  IF m0.k = "DoNotCareSentinel"
          THEN Invoke("_sequence_matches",
                      <<Tail(nodes), Tail(matchers), metadata_lookup>>)
          ELSE IF m0.k = "AtMostN" THEN
              LET g == IF m0.n > 0
                       THEN Greedy(nodes, matchers,
                                   <<AtMostN(m0.matcher, m0.n - 1)>> \o Tail(matchers),
                                   metadata_lookup)
                       ELSE NoMatch({})
              IN  IF g.st # "nomatch" THEN g
                  ELSE LET l == Lazy(nodes, matchers, g.calls, metadata_lookup)
                       IN  IF l.st # "nomatch" THEN l
                           ELSE Direct(nodes, matchers, l.calls, metadata_lookup)
          ELSE IF m0.k = "AtLeastN" THEN
              IF m0.n > 0 THEN
                  LET g == Greedy(nodes, matchers,
                                  <<AtLeastN(m0.matcher, m0.n - 1)>> \o Tail(matchers),
                                  metadata_lookup)
                  IN  IF g.st # "nomatch" THEN g
                      ELSE Direct(nodes, matchers, g.calls, metadata_lookup)
              ELSE
                  LET g == Greedy(nodes, matchers, matchers, metadata_lookup)
                  IN  IF g.st # "nomatch" THEN g
                      ELSE LET l == Lazy(nodes, matchers, g.calls, metadata_lookup)
                           IN  IF l.st # "nomatch" THEN l
                               ELSE Direct(nodes, matchers, l.calls, metadata_lookup)
          ELSE IF m0.k = "_ExtractMatchingNode"
          THEN Captured(nodes, matchers, metadata_lookup)
          ELSE Direct(nodes, matchers, {}, metadata_lookup)

\* the loop over matcher.options from option i on (lines 1109-1116)
_attribute_matches_OneOf(n, m, i, metadata_lookup) ==
    IF i > Len(m.options) THEN NoMatch({})
    ELSE IF IsSequence(m.options[i]) THEN
        LET sequence_capture ==
                Invoke("_sequence_matches",
                       <<Items(n), Items(m.options[i]), metadata_lookup>>)
        IN  IF sequence_capture.st # "nomatch" THEN sequence_capture
            ELSE After(sequence_capture.calls,
                       Invoke("_attribute_matches_OneOf", <<n, m, i + 1, metadata_lookup>>))
    ELSE IF m.options[i].k = "MatchIfTrue"
    \* matcher.func: the OneOf has no attribute func
    THEN Raise({})
    ELSE Invoke("_attribute_matches_OneOf", <<n, m, i + 1, metadata_lookup>>)

\* the loop over matcher.options from option i on (lines 1119-1133)
_attribute_matches_AllOf(n, m, i, all_captures, metadata_lookup) ==
    IF i > Len(m.options) THEN Match(all_captures, {})
    ELSE IF IsSequence(m.options[i]) THEN
        LET sequence_capture ==
                Invoke("_sequence_matches",
                       <<Items(n), Items(m.options[i]), metadata_lookup>>)
        IN  IF sequence_capture.st # "match" THEN sequence_capture
            ELSE After(sequence_capture.calls,
                       Invoke("_attribute_matches_AllOf", <<n, m, i + 1,
                           Merge(all_captures, sequence_capture.cap), metadata_lookup>>))
    ELSE IF m.options[i].k = "MatchIfTrue"
    \* matcher.func: the AllOf has no attribute func
    THEN Raise({})
    ELSE NoMatch({})

_attribute_matches(n, m, metadata_lookup) ==
    IF m.k = "DoNotCareSentinel" THEN Match(EmptyCap, {})
    ELSE IF m.k = "_InverseOf" THEN
        LET r == Invoke("_attribute_matches", <<n, m.matcher, metadata_lookup>>)
        IN  IF r.st = "nomatch" THEN Match(EmptyCap, r.calls)
            ELSE IF r.st = "match" THEN NoMatch(r.calls)
            ELSE r
    ELSE IF m.k = "_ExtractMatchingNode" THEN
        LET attribute_capture == Invoke("_attribute_matches",
                                        <<n, m.matcher, metadata_lookup>>)
        IN  IF attribute_capture.st = "match"
            THEN Match(Merge(attribute_capture.cap, Single(m.name, n)),
                       attribute_capture.calls)
            ELSE attribute_capture
    ELSE IF m.k = "MatchIfTrue" THEN
        IF CallFunc(m.func, n) THEN Match(EmptyCap, {"func"}) ELSE NoMatch({"func"})
    ELSE IF m.k = "NoneType" THEN
        IF n.k = "NoneType" THEN Match(EmptyCap, {}) ELSE NoMatch({})
    ELSE IF m.k = "str" THEN
        IF n.k = "str" /\ n.s = m.s THEN Match(EmptyCap, {}) ELSE NoMatch({})
    ELSE IF m.k = "bool" THEN
        IF n.k = "bool" /\ n.b = m.b THEN Match(EmptyCap, {}) ELSE NoMatch({})
    ELSE IF IsSequence(n) THEN
        IF m.k = "OneOf" THEN Invoke("_attribute_matches_OneOf",
                                     <<n, m, 1, metadata_lookup>>)
        ELSE IF m.k = "AllOf"
        THEN Invoke("_attribute_matches_AllOf", <<n, m, 1, EmptyCap, metadata_lookup>>)
        ELSE IF IsSequence(m)
        THEN Invoke("_sequence_matches", <<Items(n), Items(m), metadata_lookup>>)
        ELSE NoMatch({})
    ELSE Invoke("_matches", <<n, m, metadata_lookup>>)

\* the loop over metadata.options from option i on (lines 1180-1184)
_metadata_matches_OneOf(n, metadata, i, metadata_lookup) ==
    IF i > Len(metadata.options) THEN NoMatch({})
    ELSE LET metadata_capture ==
                 Invoke("_metadata_matches", <<n, metadata.options[i], metadata_lookup>>)
         IN  IF metadata_capture.st # "nomatch" THEN metadata_capture
             ELSE After(metadata_capture.calls,
                        Invoke("_metadata_matches_OneOf",
                               <<n, metadata, i + 1, metadata_lookup>>))

\* the loop over metadata.options from option i on (lines 1186-1193)
_metadata_matches_AllOf(n, metadata, i, all_captures, metadata_lookup) ==
    IF i > Len(metadata.options) THEN Match(all_captures, {})
    ELSE LET metadata_capture ==
                 Invoke("_metadata_matches", <<n, metadata.options[i], metadata_lookup>>)
         IN  IF metadata_capture.st # "match" THEN metadata_capture
             ELSE After(metadata_capture.calls,
                        Invoke("_metadata_matches_AllOf", <<n, metadata, i + 1,
                            Merge(all_captures, metadata_capture.cap), metadata_lookup>>))

_metadata_matches(n, metadata, metadata_lookup) ==
    IF metadata.k = "OneOf" THEN Invoke("_metadata_matches_OneOf",
                                        <<n, metadata, 1, metadata_lookup>>)
    ELSE IF metadata.k = "AllOf"
    THEN Invoke("_metadata_matches_AllOf", <<n, metadata, 1, EmptyCap, metadata_lookup>>)
    ELSE IF metadata.k = "_InverseOf" THEN
        LET r == Invoke("_metadata_matches", <<n, metadata.matcher, metadata_lookup>>)
        IN  IF r.st = "nomatch" THEN Match(EmptyCap, r.calls)
            ELSE IF r.st = "match" THEN NoMatch(r.calls)
            ELSE r
    ELSE IF metadata.k = "_ExtractMatchingNode" THEN
        LET metadata_capture == Invoke("_metadata_matches",
                                       <<n, metadata.matcher, metadata_lookup>>)
        IN  IF metadata_capture.st = "match"
            THEN Match(Merge(metadata_capture.cap, Single(metadata.name, n)),
                       metadata_capture.calls)
            ELSE metadata_capture
    ELSE IF metadata.k = "MatchMetadataIfTrue" THEN
        LET actual_value == Fetch(metadata_lookup, metadata.key, n)
        IN  IF actual_value = _METADATA_MISSING_SENTINEL THEN NoMatch({"lookup"})
            ELSE IF CallFunc(metadata.func, actual_value)
            THEN Match(EmptyCap, {"lookup", "metafunc"})
            ELSE NoMatch({"lookup", "metafunc"})
    ELSE IF metadata.k = "MatchMetadata" THEN
        LET actual_value == Fetch(metadata_lookup, metadata.key, n)
        IN  IF actual_value = _METADATA_MISSING_SENTINEL THEN NoMatch({"lookup"})
            ELSE IF actual_value = metadata.value THEN Match(EmptyCap, {"lookup"})
            ELSE NoMatch({"lookup"})
    ELSE Raise({})

\* the loop over fields(matcher) that ends after the first field
_node_matches_fields_first(n, m, i, all_captures, metadata_lookup) ==
    IF Fields(m.cls)[1] = "metadata" THEN Match(all_captures, {})
    ELSE Invoke("_attribute_matches",
                <<n.attrs[Fields(m.cls)[1]], m.attrs[Fields(m.cls)[1]], metadata_lookup>>)

\* the loop over fields(matcher) from field i on (lines 1280-1304)
_node_matches_fields(n, m, i, all_captures, metadata_lookup) ==
    IF i > Len(Fields(m.cls)) THEN Match(all_captures, {})
    ELSE
      LET field == Fields(m.cls)[i]
          desired == m.attrs[field]
          Rest(capture) ==
              After(capture.calls,
                    Invoke("_node_matches_fields",
                           <<n, m, i + 1, Merge(all_captures, capture.cap),
                                         metadata_lookup>>))
      IN  IF field = "metadata" THEN
              IF desired.k = "DoNotCareSentinel"
              THEN Invoke("_node_matches_fields",
                          <<n, m, i + 1, all_captures, metadata_lookup>>)
              ELSE LET metadata_capture == Invoke("_metadata_matches",
                                                  <<n, desired, metadata_lookup>>)
                   IN  IF metadata_capture.st # "match" THEN metadata_capture
                       ELSE Rest(metadata_capture)
          ELSE LET attribute_capture ==
                       Invoke("_attribute_matches",
                              <<n.attrs[field], desired, metadata_lookup>>)
               IN  IF attribute_capture.st # "match" THEN attribute_capture
                   ELSE Rest(attribute_capture)

_node_matches(n, m, metadata_lookup) ==
    IF m.k = "_InverseOf" THEN
        LET r == Invoke("_node_matches", <<n, m.matcher, metadata_lookup>>)
        IN  IF r.st = "nomatch" THEN Match(EmptyCap, r.calls)
            ELSE IF r.st = "match" THEN NoMatch(r.calls)
            ELSE r
    ELSE IF m.k = "_ExtractMatchingNode" THEN
        LET node_capture == Invoke("_node_matches", <<n, m.matcher, metadata_lookup>>)
        IN  IF node_capture.st = "match"
            THEN Match(Merge(node_capture.cap, Single(m.name, n)), node_capture.calls)
            ELSE node_capture
    ELSE IF m.k = "MatchIfTrue" THEN
        IF CallFunc(m.func, n) THEN Match(EmptyCap, {"func"}) ELSE NoMatch({"func"})
    ELSE IF m.k \in {"MatchMetadata", "MatchMetadataIfTrue"}
    THEN Invoke("_metadata_matches", <<n, m, metadata_lookup>>)
    ELSE IF ClassName(n) # ClassName(m) THEN NoMatch({})
    \* fields(matcher) raises TypeError unless the matcher is a dataclass instance
    ELSE IF m.k # "Matcher" THEN Raise({})
    ELSE Invoke("_node_matches_fields", <<n, m, 1, EmptyCap, metadata_lookup>>)

\* the loop over matcher.options from option i on (lines 1337-1341)
_matches_OneOf(n, m, i, metadata_lookup) ==
    IF i > Len(m.options) THEN NoMatch({})
    ELSE LET node_capture == Invoke("_node_matches", <<n, m.options[i], metadata_lookup>>)
         IN  IF node_capture.st # "nomatch" THEN node_capture
             ELSE After(node_capture.calls, Invoke("_matches_OneOf",
                                                   <<n, m, i + 1, metadata_lookup>>))

\* the loop over matcher.options from option i on (lines 1343-1349)
_matches_AllOf(n, m, i, all_captures, metadata_lookup) ==
    IF i > Len(m.options) THEN Match(all_captures, {})
    ELSE LET node_capture == Invoke("_node_matches", <<n, m.options[i], metadata_lookup>>)
         IN  IF node_capture.st # "match" THEN node_capture
             ELSE After(node_capture.calls,
                        Invoke("_matches_AllOf",
                               <<n, m, i + 1, Merge(all_captures, node_capture.cap),
                                       metadata_lookup>>))

_matches(n, m, metadata_lookup) ==
    IF n.k = "MaybeSentinel"
    THEN (IF m.k = "_InverseOf" THEN Match(EmptyCap, {}) ELSE NoMatch({}))
    ELSE IF m.k = "OneOf" THEN Invoke("_matches_OneOf", <<n, m, 1, metadata_lookup>>)
    ELSE IF m.k = "AllOf" THEN Invoke("_matches_AllOf",
                                      <<n, m, 1, EmptyCap, metadata_lookup>>)
    ELSE Invoke("_node_matches", <<n, m, metadata_lookup>>)

\* f(*args): every call one matching function makes of another goes through here
Invoke(f, args) ==
    CASE f = "_sequence_matches" -> _sequence_matches(args[1], args[2], args[3])
      [] f = "_attribute_matches" -> _attribute_matches(args[1], args[2], args[3])
      [] f = "_attribute_matches_OneOf" ->
            _attribute_matches_OneOf(args[1], args[2], args[3], args[4])
      [] f = "_attribute_matches_AllOf" ->
            _attribute_matches_AllOf(args[1], args[2], args[3], args[4], args[5])
      [] f = "_metadata_matches" -> _metadata_matches(args[1], args[2], args[3])
      [] f = "_metadata_matches_OneOf" ->
            _metadata_matches_OneOf(args[1], args[2], args[3], args[4])
      [] f = "_metadata_matches_AllOf" ->
            _metadata_matches_AllOf(args[1], args[2], args[3], args[4], args[5])
      [] f = "_node_matches" -> _node_matches(args[1], args[2], args[3])
      [] f = "_node_matches_fields" ->
            _node_matches_fields(args[1], args[2], args[3], args[4], args[5])
      [] f = "_matches" -> _matches(args[1], args[2], args[3])
      [] f = "_matches_OneOf" -> _matches_OneOf(args[1], args[2], args[3], args[4])
      [] f = "_matches_AllOf" ->
            _matches_AllOf(args[1], args[2], args[3], args[4], args[5])

----------------------------------------------------------------------------
(* Public API *)

\* the fetcher extract and findall build from the metadata_resolver argument
Fetcher(resolver) ==
    IF resolver.k = "NoneType" THEN _construct_metadata_fetcher_null
    ELSE IF resolver.k = "MetadataWrapper"
    THEN _construct_metadata_fetcher_wrapper(resolver)
    ELSE _construct_metadata_fetcher_dependent(resolver)

\* extract without the check of the root matcher of lines 1417-1421
extract_unchecked(n, m, resolver) ==
    IF n.k = "RemovalSentinel" THEN NoMatch({})
    ELSE _matches(n, m, Fetcher(resolver))

extract(n, m, resolver) ==
    IF n.k = "RemovalSentinel" THEN NoMatch({})
    ELSE IF m.k \in {"AtLeastN", "AtMostN", "MatchIfTrue", "MatchMetadata",
                     "MatchMetadataIfTrue"}
    THEN NoMatch({})
    ELSE _matches(n, m, Fetcher(resolver))

\* extract(...) is not None: st = "match" stands for True, "nomatch" for False
matches(n, m, resolver) ==
    LET r == extract(n, m, resolver)
    IN  IF r.st = "match" THEN Match(EmptyCap, r.calls) ELSE r

----------------------------------------------------------------------------
(* The quantifiers _sequence_matches builds for its recursive calls *)

\* the quantifier built from matchers[0] without the test n > 0 of lines 972, 992
Derived_unguarded(nodes, matchers, metadata_lookup) ==
    IF matchers # <<>> /\ Head(matchers).k \in {"AtLeastN", "AtMostN"}
    THEN {AtLeastN(Head(matchers).matcher, Head(matchers).n - 1)}
    ELSE {}

\* the AtLeastN and AtMostN objects that _sequence_matches(nodes, matchers,
\* metadata_lookup) and its recursive calls construct (lines 981, 1001)
Derived(nodes, matchers, metadata_lookup) ==
    IF nodes = <<>> \/ matchers = <<>> THEN {}
    ELSE
      LET m0 == Head(matchers)
          rest == Tail(matchers)
          Taken == _attribute_matches(Head(nodes), m0.matcher, metadata_lookup).st
                       = "match"
          Consumed(q) ==
              IF Taken
              THEN {q} \cup Derived(Tail(nodes), <<q>> \o rest, metadata_lookup)
              ELSE {}
          Dropped == Derived(nodes, rest, metadata_lookup)
      IN  IF m0.k = "DoNotCareSentinel" THEN Derived(Tail(nodes), rest, metadata_lookup)
          ELSE IF m0.k = "AtMostN" THEN
              IF m0.n > 0
              THEN LET q == AtMostN(m0.matcher, m0.n - 1)
                   IN  IF Greedy(nodes, matchers, <<q>> \o rest, metadata_lookup).st
                              # "nomatch"
                       THEN Consumed(q)
                       ELSE Consumed(q) \cup Dropped
              ELSE Dropped
          ELSE IF m0.k = "AtLeastN" THEN
              IF m0.n > 0 THEN Consumed(AtLeastN(m0.matcher, m0.n - 1))
              ELSE IF Greedy(nodes, matchers, matchers, metadata_lookup).st # "nomatch"
              THEN Derived(Tail(nodes), matchers, metadata_lookup)
              ELSE (IF Taken THEN Derived(Tail(nodes), matchers, metadata_lookup)
                    ELSE {})
                   \cup Dropped
          ELSE IF m0.k = "_ExtractMatchingNode"
          THEN Derived(nodes, <<m0.matcher>> \o rest, metadata_lookup)
          ELSE IF _matches(Head(nodes), m0, metadata_lookup).st = "match"
          THEN Derived(Tail(nodes), rest, metadata_lookup)
          ELSE {}

----------------------------------------------------------------------------
(* The trees, resolvers and matchers the session draws its arguments from *)

LOAD == [k |-> "ExpressionContext", v |-> "LOAD"]

STORE == [k |-> "ExpressionContext", v |-> "STORE"]

NameA == CSTNode("Name", 1, [value |-> Str(<<"a">>)])

NameB == CSTNode("Name", 2, [value |-> Str(<<"b">>)])

Int1 == CSTNode("Integer", 3, [value |-> Str(<<"1">>)])

Int2 == CSTNode("Integer", 4, [value |-> Str(<<"2">>)])

CallNode(id, func, args) == CSTNode("Call", id, [func |-> func, args |-> List(args)])

\* the elements of the value sequences
SeqElems == {NameA, Int1, Int2}

SeqsUpTo(S, n) == UNION {[1..l -> S] : l \in 0..n}

SeqValues == {List(s) : s \in SeqsUpTo(SeqElems, MaxLen)}

NodeValues ==
    {NameA, NameB, Int1,
     CallNode(5, NameB, <<>>), CallNode(6, NameB, <<Int1>>),
     CallNode(7, NameB, <<Int1, NameA, Int2>>)}

\* what a node-typed field or a root argument can hold besides a node
Placeholders == {MaybeSentinel, RemovalSentinel, None}

StrValues == {Str(<<>>), Str(<<"a">>), Str(<<"b">>)}

\* metadata_resolver: None, a MetadataWrapper or a MetadataDependent
Resolvers ==
    {None,
     [k |-> "MetadataWrapper", tables |-> [P |-> (1 :> LOAD @@ 2 :> STORE @@ 3 :> LOAD)]],
     [k |-> "MetadataDependent", tables |-> [P |-> (1 :> LOAD)]]}

CaptureNames == {"x"}

Name(value, metadata) == Matcher("Name", [value |-> value, metadata |-> metadata])

Integer(value, metadata) == Matcher("Integer", [value |-> value, metadata |-> metadata])

Call(func, args, metadata) ==
    Matcher("Call", [func |-> func, args |-> args, metadata |-> metadata])

mName == Name(DoNotCare, DoNotCare)

mNameA == Name(Str(<<"a">>), DoNotCare)

mInt == Integer(DoNotCare, DoNotCare)

is_Name == MatchIfTrue(UserFunc("is_Name"))

MetaLoad == MatchMetadata("P", LOAD)

MetaIsLoad == MatchMetadataIfTrue("P", UserFunc("is_LOAD"))

\* matchers of a single node: concrete, combinators, predicates, metadata leaves,
\* the wildcard and (for the root of extract) bare quantifiers
NodeMatchers ==
    {DoNotCare, mName, mNameA, mInt,
     Name(SaveMatchedNode(DoNotCare, "x"), DoNotCare),
     Name(DoNotCare, MetaLoad),
     Name(DoNotCare, SaveMatchedNode(MetaIsLoad, "x")),
     Name(OneOf(<<Str(<<"a">>), Str(<<"c">>)>>), DoNotCare),
     Call(mName, DoNotCare, DoNotCare),
     Call(DoNotCare, List(<<ZeroOrMore(DoNotCare), mInt>>), DoNotCare),
     Call(SaveMatchedNode(DoNotCare, "x"),
          List(<<SaveMatchedNode(mInt, "y"), ZeroOrMore(DoNotCare)>>), DoNotCare),
     Call(DoNotCare, OneOf(<<List(<<mInt>>), MatchIfTrue(UserFunc("nonempty"))>>),
          DoNotCare),
     OneOf(<<mNameA, mInt>>), OneOf(<<DoNotCare, mInt>>),
     OneOf(<<SaveMatchedNode(mNameA, "x"), SaveMatchedNode(mInt, "y")>>),
     AllOf(<<mName, mNameA>>), AllOf(<<mName, is_Name>>),
     is_Name, MetaLoad, MetaIsLoad,
     DoesNotMatch(mName), DoesNotMatch(DoNotCare),
     AtLeastN(DoNotCare, 1), AtMostN(mName, 1)}

\* matchers of the metadata field of a concrete matcher
MetadataMatchers ==
    {MetaLoad, MetaIsLoad, OneOf(<<MetaLoad, MatchMetadata("P", STORE)>>),
     AllOf(<<MetaLoad, MetaIsLoad>>), SaveMatchedNode(MetaLoad, "x")}

\* matchers of a str-valued field
StrMatchers ==
    {DoNotCare, Str(<<"a">>), Str(<<>>), OneOf(<<Str(<<"a">>), Str(<<"b">>)>>),
     OneOf(<<Str(<<>>), Str(<<"a">>)>>)}

\* the elements of quantifier-free pattern lists
ElemMatchers == {DoNotCare, mName, mInt, DoesNotMatch(mName), SaveMatchedNode(mInt, "x")}

\* what a quantifier wraps
InnerMatchers == {DoNotCare, mInt, SaveMatchedNode(mInt, "x")}

\* the ordinary element that follows a leading quantifier
TailMatchers ==
    {mInt, mName, DoesNotMatch(mName), OneOf(<<mNameA, mInt>>),
     Name(SaveMatchedNode(DoNotCare, "x"), DoNotCare)}

ExactLists == {List(s) : s \in SeqsUpTo(ElemMatchers, MaxPat)}

QuantifierLists ==
    {List(<<AtLeastN(i, n)>>) : i \in InnerMatchers, n \in 0..MaxN}
    \cup {List(<<AtMostN(i, n)>>) : i \in InnerMatchers, n \in 0..MaxN}

AbsorbLists ==
    {List(<<AtLeastN(DoNotCare, n), x>>) : n \in 0..MaxN, x \in TailMatchers}

\* matchers of a sequence-valued field
SeqMatchers ==
    ExactLists \cup QuantifierLists \cup AbsorbLists
    \cup {DoNotCare,
          List(<<ZeroOrMore(DoNotCare), mName, ZeroOrMore(DoNotCare)>>),
          List(<<AtMostN(DoNotCare, 1), mInt, AtMostN(mInt, 1)>>),
          List(<<SaveMatchedNode(ZeroOrMore(mInt), "x"), SaveMatchedNode(mName, "x")>>),
          OneOf(<<List(<<mInt>>), List(<<mName, ZeroOrMore(DoNotCare)>>)>>),
          OneOf(<<MatchIfTrue(UserFunc("nonempty")), List(<<>>)>>),
          AllOf(<<List(<<ZeroOrMore(DoNotCare)>>), MatchIfTrue(UserFunc("nonempty"))>>),
          AllOf(<<List(<<SaveMatchedNode(mInt, "x"), ZeroOrMore(DoNotCare)>>),
                  List(<<ZeroOrMore(DoNotCare), SaveMatchedNode(mInt, "x")>>)>>),
          MatchIfTrue(UserFunc("nonempty")),
          List(<<Name(SaveMatchedNode(DoNotCare, "x"), DoNotCare)>>),
          List(<<Name(SaveMatchedNode(DoNotCare, "x"), DoNotCare), mInt>>),
          List(<<AtMostN(mInt, 2), mInt>>),
          List(<<ZeroOrMore(mInt), mInt, DoNotCare>>),
          List(<<AtLeastN(mInt, 1), AtLeastN(DoNotCare, 1)>>),
          List(<<mInt, SaveMatchedNode(ZeroOrMore(DoNotCare), "x")>>)}

\* a value together with a matcher its position accepts
Arguments ==
    ((NodeValues \cup Placeholders) \X NodeMatchers)
    \cup (NodeValues \X MetadataMatchers)
    \cup (StrValues \X StrMatchers)
    \cup (SeqValues \X SeqMatchers)

----------------------------------------------------------------------------
(* A session: one value and one matcher are matched in one position (fn);  *)
(* a builder may then wrap the matcher, and the new matcher is matched in  *)
(* the same position.  operand and operandRet keep the matcher the builder *)
(* was applied to and what matching it returned.                           *)

Init ==
    /\ \E a \in Arguments : node = a[1] /\ matcher = a[2]
    /\ metadata_resolver \in Resolvers
    /\ fn = "none"
    /\ ret = Unset
    /\ built = "none"
    /\ operand = matcher
    /\ operandRet = Unset
    /\ finder = None
    /\ pending = <<>>
    /\ visited = <<>>
    /\ fetcher_metadata = EmptyCap
    /\ resolve_calls = <<>>
    /\ fetch_provider = None

IsRootArgument(n) == n.k \in {"CSTNode", "MaybeSentinel", "RemovalSentinel"}

Call_extract ==
    /\ ret = Unset
    /\ fn \in {"none", "extract"}
    /\ IsRootArgument(node)
    /\ matcher \notin MetadataMatchers \/ matcher \in NodeMatchers \/ built # "none"
    /\ fn' = "extract"
    /\ ret' = extract(node, matcher, metadata_resolver)
    /\ UNCHANGED <<node, matcher, metadata_resolver, built, operand, operandRet>>
    /\ UNCHANGED <<finder, pending, visited>>
    /\ UNCHANGED <<fetcher_metadata, resolve_calls, fetch_provider>>

Call_matches ==
    /\ ret = Unset
    /\ fn \in {"none", "matches"}
    /\ IsRootArgument(node)
    /\ matcher \notin MetadataMatchers \/ matcher \in NodeMatchers \/ built # "none"
    /\ fn' = "matches"
    /\ ret' = matches(node, matcher, metadata_resolver)
    /\ UNCHANGED <<node, matcher, metadata_resolver, built, operand, operandRet>>
    /\ UNCHANGED <<finder, pending, visited>>
    /\ UNCHANGED <<fetcher_metadata, resolve_calls, fetch_provider>>

Call_attribute_matches ==
    /\ ret = Unset
    /\ fn \in {"none", "_attribute_matches"}
    /\ matcher \notin MetadataMatchers \/ matcher \in NodeMatchers \/ built # "none"
    /\ fn' = "_attribute_matches"
    /\ ret' = _attribute_matches(node, matcher, Fetcher(metadata_resolver))
    /\ UNCHANGED <<node, matcher, metadata_resolver, built, operand, operandRet>>
    /\ UNCHANGED <<finder, pending, visited>>
    /\ UNCHANGED <<fetcher_metadata, resolve_calls, fetch_provider>>

Call_sequence_matches ==
    /\ ret = Unset
    /\ fn \in {"none", "_sequence_matches"}
    /\ node.k = "list"
    /\ matcher.k = "list"
    /\ fn' = "_sequence_matches"
    /\ ret' = _sequence_matches(node.items, matcher.items, Fetcher(metadata_resolver))
    /\ UNCHANGED <<node, matcher, metadata_resolver, built, operand, operandRet>>
    /\ UNCHANGED <<finder, pending, visited>>
    /\ UNCHANGED <<fetcher_metadata, resolve_calls, fetch_provider>>

Call_metadata_matches ==
    /\ ret = Unset
    /\ \/ fn = "none" /\ matcher \in MetadataMatchers
       \/ fn = "_metadata_matches"
    /\ node.k = "CSTNode"
    /\ fn' = "_metadata_matches"
    /\ ret' = _metadata_matches(node, matcher, Fetcher(metadata_resolver))
    /\ UNCHANGED <<node, matcher, metadata_resolver, built, operand, operandRet>>
    /\ UNCHANGED <<finder, pending, visited>>
    /\ UNCHANGED <<fetcher_metadata, resolve_calls, fetch_provider>>

\* matcher = DoesNotMatch(matcher), when the builder does not raise
Call_DoesNotMatch ==
    /\ ret # Unset
    /\ built = "none"
    /\ fn # "_sequence_matches"
    /\ ~IsError(DoesNotMatch(matcher))
    /\ matcher' = DoesNotMatch(matcher)
    /\ built' = "DoesNotMatch"
    /\ operand' = matcher
    /\ operandRet' = ret
    /\ ret' = Unset
    /\ UNCHANGED <<node, metadata_resolver, fn>>
    /\ UNCHANGED <<finder, pending, visited>>
    /\ UNCHANGED <<fetcher_metadata, resolve_calls, fetch_provider>>

\* matcher = DoesNotMatch(matcher) once more, on the matcher DoesNotMatch built
Call_DoesNotMatch_twice ==
    /\ ret # Unset
    /\ built = "DoesNotMatch"
    /\ ~IsError(DoesNotMatch(matcher))
    /\ matcher' = DoesNotMatch(matcher)
    /\ built' = "DoesNotMatch_twice"
    /\ ret' = Unset
    /\ UNCHANGED <<node, metadata_resolver, fn, operand, operandRet>>
    /\ UNCHANGED <<finder, pending, visited>>
    /\ UNCHANGED <<fetcher_metadata, resolve_calls, fetch_provider>>

\* matcher = SaveMatchedNode(matcher, name)
Call_SaveMatchedNode ==
    /\ ret # Unset
    /\ built = "none"
    /\ fn # "_sequence_matches"
    /\ \E name \in CaptureNames : matcher' = SaveMatchedNode(matcher, name)
    /\ built' = "SaveMatchedNode"
    /\ operand' = matcher
    /\ operandRet' = ret
    /\ ret' = Unset
    /\ UNCHANGED <<node, metadata_resolver, fn>>
    /\ UNCHANGED <<finder, pending, visited>>
    /\ UNCHANGED <<fetcher_metadata, resolve_calls, fetch_provider>>

\* matcher = [SaveMatchedNode(matcher[0], name), *matcher[1:]]
Call_SaveMatchedNode_element ==
    /\ ret # Unset
    /\ built = "none"
    /\ fn = "_sequence_matches"
    /\ matcher.items # <<>>
    /\ \E name \in CaptureNames :
          matcher' = List(<<SaveMatchedNode(Head(matcher.items), name)>>
                          \o Tail(matcher.items))
    /\ built' = "SaveMatchedNode_element"
    /\ operand' = matcher
    /\ operandRet' = ret
    /\ ret' = Unset
    /\ UNCHANGED <<node, metadata_resolver, fn>>
    /\ UNCHANGED <<finder, pending, visited>>
    /\ UNCHANGED <<fetcher_metadata, resolve_calls, fetch_provider>>

Next ==
    \/ Call_extract
    \/ Call_matches
    \/ Call_attribute_matches
    \/ Call_sequence_matches
    \/ Call_metadata_matches
    \/ Call_DoesNotMatch
    \/ Call_DoesNotMatch_twice
    \/ Call_SaveMatchedNode
    \/ Call_SaveMatchedNode_element

Spec == Init /\ [][Next]_vars

----------------------------------------------------------------------------
(* Building matchers: matcher is what the last builder returned, or the    *)
(* exception it raised; operand holds the arguments it was called with.    *)

\* the matchers a build starts from
Leaves ==
    {mName, DoNotCare, is_Name, MetaLoad, AtLeastN(DoNotCare, 1), AtMostN(mName, 1)}

\* the other argument of a binary builder
Others ==
    Leaves \cup {OneOf(<<mName, mInt>>), AllOf(<<mName, is_Name>>),
                 SaveMatchedNode(mName, "x")}

LambdaDepth(func) == IF func.k = "lambda_not" THEN 1 + LambdaDepth(func.func) ELSE 0

SizeAll(options) ==
    IF options = <<>> THEN 0 ELSE Size(Head(options)) + SizeAll(Tail(options))

\* the number of leaves and wrappers a matcher is made of
Size(m) ==
    IF m.k \in {"OneOf", "AllOf"} THEN SizeAll(m.options)
    ELSE IF m.k \in {"_InverseOf", "_ExtractMatchingNode", "AtLeastN", "AtMostN"}
    THEN 1 + Size(m.matcher)
    ELSE IF m.k \in {"MatchIfTrue", "MatchMetadataIfTrue"} THEN 1 + LambdaDepth(m.func)
    ELSE 1

BuildInit ==
    /\ matcher \in Leaves
    /\ operand = <<>>
    /\ built = "none"
    /\ node = None
    /\ metadata_resolver = None
    /\ fn = "none"
    /\ ret = Unset
    /\ operandRet = Unset
    /\ finder = None
    /\ pending = <<>>
    /\ visited = <<>>
    /\ fetcher_metadata = EmptyCap
    /\ resolve_calls = <<>>
    /\ fetch_provider = None

\* the builder name called with args has returned or raised result
Built(name, args, result) ==
    /\ IsError(result) \/ Size(result) <= MaxBuild
    /\ matcher' = result
    /\ operand' = args
    /\ built' = name
    /\ UNCHANGED <<node, metadata_resolver, fn, ret, operandRet>>
    /\ UNCHANGED <<finder, pending, visited>>
    /\ UNCHANGED <<fetcher_metadata, resolve_calls, fetch_provider>>

\* the two orders of the arguments of a binary builder
Orders(o) == {<<matcher, o>>, <<o, matcher>>}

Build_OneOf ==
    /\ ~IsError(matcher)
    /\ \E o \in Others : \E args \in Orders(o) : Built("OneOf", args, OneOf(args))

Build_AllOf ==
    /\ ~IsError(matcher)
    /\ \E o \in Others : \E args \in Orders(o) : Built("AllOf", args, AllOf(args))

Build_or ==
    /\ ~IsError(matcher)
    /\ \E o \in Others : \E args \in Orders(o) :
          Built("__or__", args, __or__(args[1], args[2]))

Build_and ==
    /\ ~IsError(matcher)
    /\ \E o \in Others : \E args \in Orders(o) :
          Built("__and__", args, __and__(args[1], args[2]))

Build_invert ==
    /\ ~IsError(matcher)
    /\ Built("__invert__", <<matcher>>, Invert(matcher))

Build_DoesNotMatch ==
    /\ ~IsError(matcher)
    /\ Built("DoesNotMatch", <<matcher>>, DoesNotMatch(matcher))

Build_SaveMatchedNode ==
    /\ ~IsError(matcher)
    /\ \E name \in CaptureNames :
          Built("SaveMatchedNode", <<matcher, name>>, SaveMatchedNode(matcher, name))

Build_AtLeastN ==
    /\ ~IsError(matcher)
    /\ \E n \in -1..1 : Built("AtLeastN", <<matcher, n>>, AtLeastN(matcher, n))

Build_AtMostN ==
    /\ ~IsError(matcher)
    /\ \E n \in -1..1 : Built("AtMostN", <<matcher, n>>, AtMostN(matcher, n))

BuildNext ==
    \/ Build_OneOf
    \/ Build_AllOf
    \/ Build_or
    \/ Build_and
    \/ Build_invert
    \/ Build_DoesNotMatch
    \/ Build_SaveMatchedNode
    \/ Build_AtLeastN
    \/ Build_AtMostN

BuildSpec == BuildInit /\ [][BuildNext]_vars

----------------------------------------------------------------------------
(* findall and extractall: finder is the _FindAllVisitor, pending the nodes *)
(* tree.visit(finder) has still to visit, first to visit first, visited the *)
(* nodes on_visit was called with, in the order of the calls.               *)

\* a sequence returned by findall or extractall
Return(value) == [st |-> "return", cap |-> EmptyCap, calls |-> {}, value |-> value]

_FindAllVisitor(m, metadata_lookup) ==
    [k |-> "_FindAllVisitor", matcher |-> m, metadata_lookup |-> metadata_lookup,
     found_nodes |-> <<>>, extracted_nodes |-> <<>>]

\* on_visit that returns False on a match: the children of a match are skipped
on_visit_prune(self, n) ==
    LET match == _matches(n, self.matcher, self.metadata_lookup)
    IN  [finder |-> IF match.st = "match"
                    THEN [self EXCEPT !.found_nodes = Append(@, n),
                                      !.extracted_nodes = Append(@, match.cap)]
                    ELSE self,
         result |-> IF match.st = "raise" THEN "raise"
                    ELSE IF match.st = "match" THEN "False" ELSE "True"]

\* self.on_visit(n): the visitor afterwards, and what the call returned
on_visit(self, n) ==
    LET match == _matches(n, self.matcher, self.metadata_lookup)
    IN  [finder |-> IF match.st = "match"
                    THEN [self EXCEPT !.found_nodes = Append(@, n),
                                      !.extracted_nodes = Append(@, match.cap)]
                    ELSE self,
         result |-> IF match.st = "raise" THEN "raise" ELSE "True"]

\* the nodes a field value holds
NodesOf(v) ==
    IF v.k = "CSTNode" THEN <<v>>
    ELSE IF v.k = "list" THEN SelectSeq(v.items, LAMBDA x : x.k = "CSTNode")
    ELSE <<>>

\* the children of n held by its fields from field i on
ChildrenFrom(n, i) ==
    IF i > Len(Fields(n.cls)) THEN <<>>
    ELSE (IF Fields(n.cls)[i] \in DOMAIN n.attrs
          THEN NodesOf(n.attrs[Fields(n.cls)[i]]) ELSE <<>>)
         \o ChildrenFrom(n, i + 1)

\* the children n.visit(visitor) visits after on_visit(n) returned True
Children(n) == ChildrenFrom(n, 1)

\* a tree whose root calls a call
NestedCall == CallNode(8, CallNode(6, NameB, <<Int1>>), <<NameA, Int2>>)

\* the tree argument: a node, a sentinel or a MetadataWrapper
FindTrees ==
    {NameA, Int1, CallNode(5, NameB, <<>>), CallNode(7, NameB, <<Int1, NameA, Int2>>),
     NestedCall, MaybeSentinel, RemovalSentinel,
     [k |-> "MetadataWrapper", tables |-> [P |-> (2 :> LOAD @@ 3 :> STORE)],
      module |-> CallNode(6, NameB, <<Int1>>)]}

FindMatchers ==
    {mName, mInt, DoNotCare, is_Name, MetaLoad, DoesNotMatch(mInt),
     DoesNotMatch(is_Name), OneOf(<<mNameA, mInt>>), Name(DoNotCare, MetaLoad),
     SaveMatchedNode(mName, "x"), Call(SaveMatchedNode(DoNotCare, "x"), DoNotCare, DoNotCare),
     Name(OneOf(<<Str(<<"a">>), Str(<<"c">>)>>), DoNotCare),
     AtLeastN(DoNotCare, 1), AtMostN(mName, 1)}

FindInit ==
    /\ node \in FindTrees
    /\ matcher \in FindMatchers
    /\ metadata_resolver \in Resolvers
    /\ fn = "none"
    /\ ret = Unset
    /\ built = "none"
    /\ operand = matcher
    /\ operandRet = Unset
    /\ finder = None
    /\ pending = <<>>
    /\ visited = <<>>
    /\ fetcher_metadata = EmptyCap
    /\ resolve_calls = <<>>
    /\ fetch_provider = None

\* _find_or_extract_all up to tree.visit(finder)
_find_or_extract_all ==
    IF \/ node.k \in {"RemovalSentinel", "MaybeSentinel"}
       \/ matcher.k \in {"AtLeastN", "AtMostN"}
    THEN /\ ret' = Return(<<>>)
         /\ UNCHANGED <<finder, pending>>
    ELSE LET resolver ==
                 IF node.k = "MetadataWrapper" /\ metadata_resolver.k = "NoneType"
                 THEN node ELSE metadata_resolver
         IN  /\ finder' = _FindAllVisitor(matcher, Fetcher(resolver))
             /\ pending' = <<IF node.k = "MetadataWrapper" THEN node.module ELSE node>>
             /\ ret' = Unset

Call_findall ==
    /\ fn = "none"
    /\ fn' = "findall"
    /\ _find_or_extract_all
    /\ UNCHANGED <<node, matcher, metadata_resolver, built, operand, operandRet, visited>>
    /\ UNCHANGED <<fetcher_metadata, resolve_calls, fetch_provider>>

Call_extractall ==
    /\ fn = "none"
    /\ fn' = "extractall"
    /\ _find_or_extract_all
    /\ UNCHANGED <<node, matcher, metadata_resolver, built, operand, operandRet, visited>>
    /\ UNCHANGED <<fetcher_metadata, resolve_calls, fetch_provider>>

\* tree.visit calls finder.on_visit on the next node; an exception ends the visit
Visit ==
    /\ fn \in {"findall", "extractall"}
    /\ ret = Unset
    /\ pending # <<>>
    /\ LET n == Head(pending)
           r == on_visit(finder, n)
       IN  /\ finder' = r.finder
           /\ visited' = Append(visited, n)
           /\ IF r.result = "raise"
              THEN ret' = Raise({}) /\ pending' = <<>>
              ELSE /\ ret' = ret
                   /\ pending' = (IF r.result = "True" THEN Children(n) ELSE <<>>)
                                 \o Tail(pending)
    /\ UNCHANGED <<node, matcher, metadata_resolver, fn, built, operand, operandRet>>
    /\ UNCHANGED <<fetcher_metadata, resolve_calls, fetch_provider>>

\* tree.visit has returned: findall returns the nodes
Return_findall ==
    /\ fn = "findall"
    /\ ret = Unset
    /\ pending = <<>>
    /\ ret' = Return(finder.found_nodes)
    /\ UNCHANGED <<node, matcher, metadata_resolver, fn, built, operand, operandRet,
                   finder, pending, visited>>
    /\ UNCHANGED <<fetcher_metadata, resolve_calls, fetch_provider>>

\* tree.visit has returned: extractall returns the extractions
Return_extractall ==
    /\ fn = "extractall"
    /\ ret = Unset
    /\ pending = <<>>
    /\ ret' = Return(finder.extracted_nodes)
    /\ UNCHANGED <<node, matcher, metadata_resolver, fn, built, operand, operandRet,
                   finder, pending, visited>>
    /\ UNCHANGED <<fetcher_metadata, resolve_calls, fetch_provider>>

FindNext ==
    \/ Call_findall
    \/ Call_extractall
    \/ Visit
    \/ Return_findall
    \/ Return_extractall

FindSpec == FindInit /\ [][FindNext]_vars

----------------------------------------------------------------------------
(* The fetcher of a MetadataWrapper: fetcher_metadata is the dictionary the  *)
(* closure _fetch keeps, resolve_calls the providers wrapper.resolve was      *)
(* called with since the fetcher was constructed, fetch_provider and node the *)
(* arguments of the last call of _fetch, and ret what it returned.            *)

\* the largest number of calls of wrapper.resolve that are followed
MaxResolve == 4

Providers == {"P", "Q", "R"}

FetchWrappers ==
    {[k |-> "MetadataWrapper",
      tables |-> [P |-> (1 :> LOAD @@ 2 :> STORE), Q |-> (1 :> STORE), R |-> EmptyCap]],
     [k |-> "MetadataWrapper",
      tables |-> [P |-> (3 :> STORE), Q |-> (2 :> LOAD @@ 3 :> LOAD), R |-> (1 :> LOAD)]]}

\* wrapper.resolve(provider): the table of the provider, from node to value
resolve(wrapper, p) == wrapper.tables[p]

\* _fetch that calls wrapper.resolve whether or not the provider is cached
_fetch_uncached(metadata, wrapper, p, n) ==
    LET table == resolve(wrapper, p)
    IN  [metadata |-> Merge(metadata, Single(p, table)),
         resolve_calls |-> <<p>>,
         value |-> IF n.id \in DOMAIN table THEN table[n.id]
                   ELSE _METADATA_MISSING_SENTINEL]

\* _fetch(provider, node) of the closure whose dictionary is metadata: the
\* dictionary afterwards, the calls of wrapper.resolve made, the value returned
_fetch(metadata, wrapper, p, n) ==
    LET cached == IF p \notin DOMAIN metadata
                  THEN Merge(metadata, Single(p, resolve(wrapper, p)))
                  ELSE metadata
        table == cached[p]
    IN  [metadata |-> cached,
         resolve_calls |-> IF p \notin DOMAIN metadata THEN <<p>> ELSE <<>>,
         value |-> IF n.id \in DOMAIN table THEN table[n.id]
                   ELSE _METADATA_MISSING_SENTINEL]

FetchInit ==
    /\ node = None
    /\ matcher = DoNotCare
    /\ metadata_resolver \in FetchWrappers
    /\ fn = "none"
    /\ ret = Unset
    /\ built = "none"
    /\ operand = <<>>
    /\ operandRet = Unset
    /\ finder = None
    /\ pending = <<>>
    /\ visited = <<>>
    /\ fetcher_metadata = EmptyCap
    /\ resolve_calls = <<>>
    /\ fetch_provider = None

\* _construct_metadata_fetcher_wrapper(metadata_resolver): a new closure with an
\* empty dictionary, as every call of extract, findall or extractall makes one
Call_construct_metadata_fetcher_wrapper ==
    /\ fn \in {"none", "_fetch"}
    /\ fn' = "_construct_metadata_fetcher_wrapper"
    /\ fetcher_metadata' = EmptyCap
    /\ resolve_calls' = <<>>
    /\ ret' = Unset
    /\ fetch_provider' = None
    /\ node' = None
    /\ UNCHANGED <<matcher, metadata_resolver, built, operand, operandRet>>
    /\ UNCHANGED <<finder, pending, visited>>

\* the closure is called with a provider and a node
Call_fetch ==
    /\ fn \in {"_construct_metadata_fetcher_wrapper", "_fetch"}
    /\ Len(resolve_calls) < MaxResolve
    /\ \E p \in Providers : \E n \in {NameA, NameB, Int1} :
          LET r == _fetch(fetcher_metadata, metadata_resolver, p, n)
          IN  /\ fetcher_metadata' = r.metadata
              /\ resolve_calls' = resolve_calls \o r.resolve_calls
              /\ ret' = Return(r.value)
              /\ fetch_provider' = p
              /\ node' = n
    /\ fn' = "_fetch"
    /\ UNCHANGED <<matcher, metadata_resolver, built, operand, operandRet>>
    /\ UNCHANGED <<finder, pending, visited>>

FetchNext ==
    \/ Call_construct_metadata_fetcher_wrapper
    \/ Call_fetch

FetchSpec == FetchInit /\ [][FetchNext]_vars

----------------------------------------------------------------------------
(* The calls the matching functions make of one another.  A frame is one   *)
(* call <<f, value, matcher>>; the value and the matcher of a frame of     *)
(* _sequence_matches are the lists nodes and matchers.  Every call site of *)
(* a function is listed whether or not the results of the calls before it  *)
(* let the control reach it, so the calls a run makes are among these.     *)

\* the recursive call of the greedy branches with nodes instead of nodes[1:]
GreedyCall_unconsumed(nodes, next_matchers) ==
    <<"_sequence_matches", List(nodes), List(next_matchers)>>

\* lines 978-982, 998-1002, 1010-1012: nodes[0] is consumed by the quantifier
GreedyCall(nodes, next_matchers) ==
    <<"_sequence_matches", List(Tail(nodes)), List(next_matchers)>>

\* lines 964-1051
Calls_sequence_matches(nodes, matchers) ==
    IF nodes = <<>> \/ matchers = <<>> THEN {}
    ELSE
      LET m0 == Head(matchers)
          rest == Tail(matchers)
          attribute == <<"_attribute_matches", Head(nodes), m0.matcher>>
          lazy == <<"_sequence_matches", List(nodes), List(rest)>>
          direct == {<<"_matches", Head(nodes), m0>>,
                     <<"_sequence_matches", List(Tail(nodes)), List(rest)>>}
      IN  IF m0.k = "DoNotCareSentinel"
          THEN {<<"_sequence_matches", List(Tail(nodes)), List(rest)>>}
          ELSE IF m0.k = "AtMostN" THEN
              (IF m0.n > 0
               THEN {attribute,
                     GreedyCall(nodes, <<AtMostN(m0.matcher, m0.n - 1)>> \o rest)}
               ELSE {})
              \cup {lazy} \cup direct
          ELSE IF m0.k = "AtLeastN" THEN
              (IF m0.n > 0
               THEN {attribute,
                     GreedyCall(nodes, <<AtLeastN(m0.matcher, m0.n - 1)>> \o rest)}
               ELSE {attribute, GreedyCall(nodes, matchers), lazy})
              \cup direct
          ELSE IF m0.k = "_ExtractMatchingNode"
          THEN {<<"_sequence_matches", List(nodes), List(<<m0.matcher>> \o rest)>>}
          ELSE direct

\* lines 1054-1165
Calls_attribute_matches(n, m) ==
    IF m.k \in {"_InverseOf", "_ExtractMatchingNode"}
    THEN {<<"_attribute_matches", n, m.matcher>>}
    ELSE IF m.k \in {"DoNotCareSentinel", "MatchIfTrue", "NoneType", "str", "bool"}
    THEN {}
    ELSE IF IsSequence(n) THEN
        IF m.k \in {"OneOf", "AllOf"}
        THEN {<<"_sequence_matches", List(Items(n)), List(Items(m.options[i]))>> :
                  i \in {j \in DOMAIN m.options : IsSequence(m.options[j])}}
        ELSE IF IsSequence(m)
        THEN {<<"_sequence_matches", List(Items(n)), List(Items(m))>>}
        ELSE {}
    ELSE {<<"_matches", n, m>>}

\* lines 1168-1221
Calls_metadata_matches(n, metadata) ==
    IF metadata.k \in {"OneOf", "AllOf"}
    THEN {<<"_metadata_matches", n, metadata.options[i]>> : i \in DOMAIN metadata.options}
    ELSE IF metadata.k \in {"_InverseOf", "_ExtractMatchingNode"}
    THEN {<<"_metadata_matches", n, metadata.matcher>>}
    ELSE {}

\* lines 1224-1304
Calls_node_matches(n, m) ==
    IF m.k \in {"_InverseOf", "_ExtractMatchingNode"}
    THEN {<<"_node_matches", n, m.matcher>>}
    ELSE IF m.k = "MatchIfTrue" THEN {}
    ELSE IF m.k \in {"MatchMetadata", "MatchMetadataIfTrue"}
    THEN {<<"_metadata_matches", n, m>>}
    ELSE IF ClassName(n) # ClassName(m) \/ m.k # "Matcher" THEN {}
    ELSE {IF Fields(m.cls)[i] = "metadata"
          THEN <<"_metadata_matches", n, m.attrs["metadata"]>>
          ELSE <<"_attribute_matches", n.attrs[Fields(m.cls)[i]],
                 m.attrs[Fields(m.cls)[i]]>> :
              i \in {j \in DOMAIN Fields(m.cls) :
                         Fields(m.cls)[j] = "metadata"
                             => m.attrs["metadata"].k # "DoNotCareSentinel"}}

\* lines 1307-1345
Calls_matches(n, m) ==
    IF n.k = "MaybeSentinel" THEN {}
    ELSE IF m.k \in {"OneOf", "AllOf"}
    THEN {<<"_node_matches", n, m.options[i]>> : i \in DOMAIN m.options}
    ELSE {<<"_node_matches", n, m>>}

\* the calls the body of f(n, m, metadata_lookup) makes
Calls(f, n, m) ==
    CASE f = "_sequence_matches" -> Calls_sequence_matches(n.items, m.items)
      [] f = "_attribute_matches" -> Calls_attribute_matches(n, m)
      [] f = "_metadata_matches" -> Calls_metadata_matches(n, m)
      [] f = "_node_matches" -> Calls_node_matches(n, m)
      [] f = "_matches" -> Calls_matches(n, m)

\* what f(n, m, metadata_lookup) returns
FrameResult(f, n, m, metadata_lookup) ==
    IF f = "_sequence_matches" THEN Invoke(f, <<n.items, m.items, metadata_lookup>>)
    ELSE Invoke(f, <<n, m, metadata_lookup>>)

----------------------------------------------------------------------------
(* One chain of nested calls: fn, node and matcher are the innermost call, *)
(* pending the functions of its callers, innermost first, and operand the  *)
(* matcher of the outermost call.  Enter makes one of the calls of the     *)
(* innermost call; Return_innermost is the return of a call that makes     *)
(* none.                                                                   *)

\* the deepest chain of calls that is followed
MaxDepth == 24

CallInit ==
    /\ \E a \in Arguments :
          /\ node = a[1]
          /\ matcher = a[2]
          /\ fn = IF a[2] \in MetadataMatchers \ NodeMatchers
                  THEN "_metadata_matches"
                  ELSE IF a[1].k = "list" /\ a[2].k = "list"
                  THEN "_sequence_matches"
                  ELSE "_attribute_matches"
    /\ metadata_resolver \in Resolvers
    /\ ret = Unset
    /\ built = "none"
    /\ operand = matcher
    /\ operandRet = Unset
    /\ finder = None
    /\ pending = <<>>
    /\ visited = <<>>
    /\ fetcher_metadata = EmptyCap
    /\ resolve_calls = <<>>
    /\ fetch_provider = None

Enter ==
    /\ ret = Unset
    /\ Len(pending) < MaxDepth
    /\ \E c \in Calls(fn, node, matcher) :
          /\ fn' = c[1]
          /\ node' = c[2]
          /\ matcher' = c[3]
    /\ pending' = <<fn>> \o pending
    /\ UNCHANGED <<metadata_resolver, ret, built, operand, operandRet>>
    /\ UNCHANGED <<finder, visited>>
    /\ UNCHANGED <<fetcher_metadata, resolve_calls, fetch_provider>>

Return_innermost ==
    /\ ret = Unset
    /\ Calls(fn, node, matcher) = {}
    /\ ret' = FrameResult(fn, node, matcher, Fetcher(metadata_resolver))
    /\ UNCHANGED <<node, matcher, metadata_resolver, fn, built, operand, operandRet>>
    /\ UNCHANGED <<finder, pending, visited>>
    /\ UNCHANGED <<fetcher_metadata, resolve_calls, fetch_provider>>

CallNext ==
    \/ Enter
    \/ Return_innermost

\* a call that has been entered runs: neither it nor its caller waits on anything
CallSpec == CallInit /\ [][CallNext]_vars /\ WF_vars(CallNext)

----------------------------------------------------------------------------
(* Properties *)

\* the call of the session has returned
Returned == ret # Unset

\* neither the call on the operand nor the call on the built matcher raised
NoRaise == ret.st # "raise" /\ operandRet.st # "raise"

\* the matchers DoesNotMatch documents as negatable
Negatable(m) ==
    m.k \in {"Matcher", "OneOf", "AllOf", "MatchIfTrue", "MatchMetadata",
             "MatchMetadataIfTrue"}

\* C1: DoesNotMatch(M) succeeds on a value iff M fails on it, for every value
\* (MaybeSentinel included), every resolver and every negatable M matched as an
\* attribute, and its capture map is then empty.
C1_NegationInverts ==
    (/\ built = "DoesNotMatch"
     /\ fn = "_attribute_matches"
     /\ Returned
     /\ NoRaise
     /\ Negatable(operand))
    => /\ (ret.st = "match") <=> (operandRet.st = "nomatch")
       /\ ret.st = "match" => ret.cap = EmptyCap

\* C2: DoNotCare succeeds with no captures as the root matcher of matches and
\* extract on every node, as a field pattern on every value, as every element of
\* a pattern list of the sequence's length and as an option of OneOf; and
\* DoesNotMatch(DoNotCare) never succeeds on a node.
C2_WildcardSucceeds ==
    Returned =>
       /\ (/\ matcher = DoNotCare
           /\ \/ fn \in {"extract", "matches"} /\ node.k = "CSTNode"
              \/ fn = "_attribute_matches")
          => ret = Match(EmptyCap, {})
       /\ (/\ fn = "_sequence_matches"
           /\ Len(matcher.items) = Len(node.items)
           /\ \A i \in DOMAIN matcher.items : matcher.items[i] = DoNotCare)
          => ret = Match(EmptyCap, {})
       /\ (/\ fn = "_attribute_matches"
           /\ node.k = "CSTNode"
           /\ matcher.k = "OneOf"
           /\ \E i \in DOMAIN matcher.options : matcher.options[i] = DoNotCare)
          => ret.st = "match"
       /\ (matcher = DoesNotMatch(DoNotCare) /\ node.k = "CSTNode")
          => ret.st # "match"

\* the name the builder of the session gave its capture
CaptureName ==
    IF built = "SaveMatchedNode" THEN matcher.name ELSE Head(matcher.items).name

\* C3: SaveMatchedNode(M, name) succeeds in a position (root of extract or
\* matches on a node, field pattern, element of a pattern list) iff M succeeds
\* there, and the captures extract or the field match returns then hold name.
C3_CaptureTransparent ==
    (/\ built \in {"SaveMatchedNode", "SaveMatchedNode_element"}
     /\ fn \in {"extract", "matches", "_attribute_matches", "_sequence_matches"}
     /\ fn \in {"extract", "matches"}
           => /\ node.k = "CSTNode"
              /\ operand.k \in {"Matcher", "OneOf", "AllOf", "_InverseOf",
                                "_ExtractMatchingNode"}
     /\ Returned
     /\ NoRaise)
    => /\ (ret.st = "match") <=> (operandRet.st = "match")
       /\ (ret.st = "match" /\ fn # "matches") => CaptureName \in DOMAIN ret.cap

\* the value the capture built in the session is documented to save
OuterValue == IF built = "SaveMatchedNode" THEN node ELSE Head(node.items)

\* M alone saved the name from a capture nested inside M, and (in a pattern
\* list) no later element saved it again
NestedCapture(name) ==
    IF built = "SaveMatchedNode" THEN name \in DOMAIN operandRet.cap
    ELSE /\ Head(operand.items).k = "Matcher"
         /\ node.items # <<>>
         /\ LET L == Fetcher(metadata_resolver)
                h == _matches(Head(node.items), Head(operand.items), L)
                t == _sequence_matches(Tail(node.items), Tail(operand.items), L)
            IN  /\ h.st = "match"
                /\ name \in DOMAIN h.cap
                /\ name \notin DOMAIN t.cap

\* C4: when SaveMatchedNode(M, "x") succeeds and M saved "x" from a nested
\* capture, the returned map binds "x" to what the outer capture matched: the
\* node, the field value, or the element of the sequence.
C4_ParentOverChild ==
    (/\ built \in {"SaveMatchedNode", "SaveMatchedNode_element"}
     /\ fn # "matches"
     /\ ret.st = "match"
     /\ NestedCapture(CaptureName))
    => ret.cap[CaptureName] = OuterValue

\* C5: matches and extract return a match or a failure and never raise, for
\* every matcher that was built without an error.
C5_NeverRaises ==
    fn \in {"extract", "matches"} => ret.st # "raise"

\* C6: on RemovalSentinel and MaybeSentinel extract returns None and matches
\* False, for every matcher.
C6_PlaceholderFails ==
    (/\ fn \in {"extract", "matches"}
     /\ Returned
     /\ node.k \in {"RemovalSentinel", "MaybeSentinel"})
    => ret.st = "nomatch"

\* the root matchers extract refuses: quantifiers, MatchIfTrue, metadata leaves
BareRoot(m) ==
    m.k \in {"AtLeastN", "AtMostN", "MatchIfTrue", "MatchMetadata",
             "MatchMetadataIfTrue"}

\* C7: with a bare quantifier, MatchIfTrue, MatchMetadata or MatchMetadataIfTrue
\* as the root matcher extract and matches fail on every node under every
\* resolver and call neither the predicate nor the resolver; and matches is
\* true iff extract returns a capture map.
C7_BareRootFails ==
    /\ (/\ fn \in {"extract", "matches"}
        /\ Returned
        /\ BareRoot(matcher))
       => ret = NoMatch({})
    /\ (fn = "matches" /\ Returned)
       => ((ret.st = "match")
              <=> (extract(node, matcher, metadata_resolver).st = "match"))

\* extract has refused a predicate that is true of the node
C7_Witness ==
    /\ fn = "extract"
    /\ node = NameA
    /\ matcher = is_Name
    /\ CallFunc(matcher.func, node)
    /\ ret = NoMatch({})

\* a matcher without the captures wrapped around it
Unwrap(m) == IF m.k = "_ExtractMatchingNode" THEN Unwrap(m.matcher) ELSE m

IsQuantifier(m) == Unwrap(m).k \in {"AtLeastN", "AtMostN"}

QuantifierFree(ms) == \A i \in DOMAIN ms : ~IsQuantifier(ms[i])

\* one element of a sequence matches one element of a pattern list: DoNotCare
\* takes any element, another matcher takes what _matches accepts
ElementMatches(v, m) ==
    \/ Unwrap(m) = DoNotCare
    \/ _matches(v, Unwrap(m), Fetcher(metadata_resolver)).st = "match"

\* C8: a pattern list without quantifiers matches a sequence iff both have the
\* same length and every element matches the matcher at its index.
C8_ExactSequenceMatch ==
    (/\ fn = "_sequence_matches"
     /\ Returned
     /\ QuantifierFree(matcher.items))
    => ((ret.st = "match")
           <=> /\ Len(node.items) = Len(matcher.items)
               /\ \A i \in DOMAIN matcher.items :
                     ElementMatches(node.items[i], matcher.items[i]))

\* two elements have matched two concrete matchers
C8_Witness ==
    /\ fn = "_sequence_matches"
    /\ matcher = List(<<mName, mInt>>)
    /\ node = List(<<NameA, Int2>>)
    /\ ret.st = "match"

\* every element of the sequence matches what the quantifier wraps
AllMatch(inner) ==
    \A i \in DOMAIN node.items :
       _attribute_matches(node.items[i], inner, Fetcher(metadata_resolver)).st = "match"

\* C9: the pattern list [AtLeastN(inner, n=k)] matches a sequence iff it has at
\* least k elements and each matches inner; [AtMostN(inner, n=k)] iff it has at
\* most k elements and each matches inner.
C9_QuantifierCounting ==
    (/\ fn = "_sequence_matches"
     /\ Returned
     /\ Len(matcher.items) = 1
     /\ matcher.items[1].k \in {"AtLeastN", "AtMostN"})
    => LET q == matcher.items[1]
           count == IF q.k = "AtLeastN" THEN Len(node.items) >= q.n
                    ELSE Len(node.items) <= q.n
       IN  (ret.st = "match") <=> (count /\ AllMatch(q.matcher))

\* AtLeastN(Integer(), n=2) has matched three integers
C9_Witness ==
    /\ fn = "_sequence_matches"
    /\ matcher = List(<<AtLeastN(mInt, 2)>>)
    /\ Len(node.items) = 3
    /\ ret.st = "match"

\* C10: the pattern list [AtLeastN(DoNotCare, n=k), X], X not a quantifier,
\* matches a sequence iff it has at least k+1 elements and its last element
\* matches X.
C10_LeadingAbsorption ==
    (/\ fn = "_sequence_matches"
     /\ Returned
     /\ Len(matcher.items) = 2
     /\ matcher.items[1].k = "AtLeastN"
     /\ matcher.items[1].matcher = DoNotCare
     /\ ~IsQuantifier(matcher.items[2]))
    => ((ret.st = "match")
           <=> /\ Len(node.items) >= matcher.items[1].n + 1
               /\ ElementMatches(node.items[Len(node.items)], matcher.items[2]))

\* [ZeroOrMore(), Integer()] has matched [Integer, Name, Integer]
C10_Witness ==
    /\ fn = "_sequence_matches"
    /\ matcher = List(<<ZeroOrMore(DoNotCare), mInt>>)
    /\ node = List(<<Int1, NameA, Int2>>)
    /\ ret.st = "match"

\* what metadata_resolver holds for the key of the matcher and the node
Resolved ==
    IF metadata_resolver.k = "NoneType" THEN _METADATA_MISSING_SENTINEL
    ELSE IF /\ matcher.key \in DOMAIN metadata_resolver.tables
            /\ node.id \in DOMAIN metadata_resolver.tables[matcher.key]
    THEN metadata_resolver.tables[matcher.key][node.id]
    ELSE _METADATA_MISSING_SENTINEL

\* C14: when the resolver has nothing for (P, node), in particular without a
\* resolver, MatchMetadata(P, v) and MatchMetadataIfTrue(P, f) fail and f is not
\* called; otherwise MatchMetadata succeeds iff the value equals v and
\* MatchMetadataIfTrue iff f(value) is true.
C14_MetadataMiss ==
    (/\ fn \in {"_metadata_matches", "_attribute_matches"}
     /\ Returned
     /\ node.k = "CSTNode"
     /\ matcher.k \in {"MatchMetadata", "MatchMetadataIfTrue"})
    => IF Resolved = _METADATA_MISSING_SENTINEL
       THEN ret.st = "nomatch" /\ "metafunc" \notin ret.calls
       ELSE IF matcher.k = "MatchMetadata"
       THEN (ret.st = "match") <=> (Resolved = matcher.value)
       ELSE (ret.st = "match") <=> CallFunc(matcher.func, Resolved)

\* MatchMetadataIfTrue has failed without a resolver, its predicate not called
C14_Witness ==
    /\ fn = "_metadata_matches"
    /\ node = NameA
    /\ matcher = MetaIsLoad
    /\ metadata_resolver = None
    /\ ret = NoMatch({"lookup"})

\* what matching field f of the matcher of the session returns on the node
FieldResult(f) ==
    IF f # "metadata"
    THEN _attribute_matches(node.attrs[f], matcher.attrs[f], Fetcher(metadata_resolver))
    ELSE IF matcher.attrs[f] = DoNotCare THEN Match(EmptyCap, {})
    ELSE _metadata_matches(node, matcher.attrs[f], Fetcher(metadata_resolver))

\* the captures of the first i fields of the matcher of the session together
FieldCaptures(i) ==
    IF i = 0 THEN EmptyCap
    ELSE Merge(FieldCaptures(i - 1), FieldResult(Fields(matcher.cls)[i]).cap)

\* C17: a concrete matcher fails on a node of another class; on a node of its
\* class it succeeds iff its metadata matcher (when not DoNotCare) matches the
\* node and the matcher of every field matches the node's value of the field,
\* and the captures are then those of the fields together.
C17_NodeMatching ==
    (/\ fn \in {"extract", "matches", "_attribute_matches"}
     /\ Returned
     /\ matcher.k = "Matcher"
     /\ node.k = "CSTNode")
    => IF node.cls # matcher.cls THEN ret.st = "nomatch"
       ELSE /\ (ret.st = "match")
                  <=> \A i \in DOMAIN Fields(matcher.cls) :
                         FieldResult(Fields(matcher.cls)[i]).st = "match"
            /\ (ret.st = "match" /\ fn # "matches")
                  => ret.cap = FieldCaptures(Len(Fields(matcher.cls)))

\* two fields of a Call have each captured under a name of their own
C17_Witness ==
    /\ fn = "extract"
    /\ matcher.k = "Matcher"
    /\ node = CallNode(6, NameB, <<Int1>>)
    /\ ret.st = "match"
    /\ DOMAIN ret.cap = {"x", "y"}
    /\ ret.cap["x"] = NameB

\* C18: DoesNotMatch(DoesNotMatch(M)) succeeds on a value iff M succeeds on it,
\* for every value, every resolver and every negatable M, in the same position.
C18_DoubleNegation ==
    (/\ built = "DoesNotMatch_twice"
     /\ Returned
     /\ Negatable(operand))
    => ((ret.st = "match") <=> (operandRet.st = "match"))

\* the double negation of a MatchIfTrue, its callable inverted twice, has matched
C18_Witness ==
    /\ built = "DoesNotMatch_twice"
    /\ operand = is_Name
    /\ matcher # operand
    /\ ret.st = "match"
    /\ operandRet.st = "match"

\* what matching value n with matcher m returns in the position of the session
InPosition(n, m) ==
    IF fn = "extract" THEN extract(n, m, metadata_resolver)
    ELSE IF fn = "matches" THEN matches(n, m, metadata_resolver)
    ELSE IF fn = "_metadata_matches"
    THEN _metadata_matches(n, m, Fetcher(metadata_resolver))
    ELSE IF fn = "_sequence_matches"
    THEN _sequence_matches(n.items, m.items, Fetcher(metadata_resolver))
    ELSE _attribute_matches(n, m, Fetcher(metadata_resolver))

\* DoesNotMatch of every option of the combinator m
Negated(m) == [i \in DOMAIN m.options |-> DoesNotMatch(m.options[i])]

\* C19: DoesNotMatch(OneOf(A, B)) succeeds on a value iff
\* AllOf(DoesNotMatch(A), DoesNotMatch(B)) does, and DoesNotMatch(AllOf(A, B))
\* iff OneOf(DoesNotMatch(A), DoesNotMatch(B)) does.
C19_DeMorgan ==
    (built = "DoesNotMatch" /\ Returned)
    => /\ operand.k = "OneOf" =>
             ((ret.st = "match")
                 <=> (InPosition(node, AllOf(Negated(operand))).st = "match"))
       /\ operand.k = "AllOf" =>
             ((ret.st = "match")
                 <=> (InPosition(node, OneOf(Negated(operand))).st = "match"))

\* the negation of a OneOf has matched a node that none of its options matches
C19_Witness ==
    /\ built = "DoesNotMatch"
    /\ operand = OneOf(<<mNameA, mInt>>)
    /\ node = NameB
    /\ ret.st = "match"
    /\ operandRet.st = "nomatch"

\* what option i of the OneOf of the session returns on the value of the session
OptionResult(i) ==
    IF fn = "_metadata_matches"
    THEN _metadata_matches(node, matcher.options[i], Fetcher(metadata_resolver))
    ELSE _attribute_matches(node, matcher.options[i], Fetcher(metadata_resolver))

\* the options of the OneOf of the session that succeed on the value of the session
Succeeding == {i \in DOMAIN matcher.options : OptionResult(i).st = "match"}

\* C20: a OneOf succeeds on a node or on a sequence iff one of its options
\* succeeds on it, and its captures are those of the first option that succeeds;
\* an option that fails, a MatchIfTrue on a sequence included, does not keep the
\* later options from being tried.
C20_OneOfFirstSuccess ==
    (/\ fn \in {"extract", "matches", "_attribute_matches", "_metadata_matches"}
     /\ Returned
     /\ matcher.k = "OneOf"
     /\ \/ node.k = "CSTNode"
        \/ /\ fn = "_attribute_matches"
           /\ node.k = "list"
           /\ \A i \in DOMAIN matcher.options :
                 matcher.options[i].k \in {"list", "MatchIfTrue"})
    => /\ (ret.st = "match") <=> (Succeeding # {})
       /\ (ret.st = "match" /\ fn # "matches")
             => \E i \in Succeeding :
                   /\ \A j \in Succeeding : i <= j
                   /\ ret.cap = OptionResult(i).cap

\* the captures of the first i options of the AllOf of the session, merged in
\* option order
OptionCaptures(i) ==
    IF i = 0 THEN EmptyCap
    ELSE Merge(OptionCaptures(i - 1), OptionResult(i).cap)

\* C21: an AllOf succeeds on a node or on a sequence iff every option succeeds
\* on it, and its captures are those of the options merged in option order, a
\* later option overriding an earlier one; a MatchIfTrue option that holds of a
\* sequence does not skip the later options; on a sequence an option that is
\* neither a list nor a MatchIfTrue makes the AllOf fail.
C21_AllOfMerges ==
    (/\ fn \in {"extract", "matches", "_attribute_matches", "_metadata_matches"}
     /\ Returned
     /\ matcher.k = "AllOf"
     /\ node.k = "CSTNode" \/ (fn = "_attribute_matches" /\ node.k = "list"))
    => IF /\ node.k = "list"
          /\ \E i \in DOMAIN matcher.options :
                matcher.options[i].k \notin {"list", "MatchIfTrue"}
       THEN ret.st # "match"
       ELSE /\ (ret.st = "match")
                  <=> \A i \in DOMAIN matcher.options : OptionResult(i).st = "match"
            /\ (ret.st = "match" /\ fn # "matches")
                  => ret.cap = OptionCaptures(Len(matcher.options))

\* m is a OneOf whose options are all strings
OneOfStrings(m) ==
    /\ m.k = "OneOf"
    /\ \A i \in DOMAIN m.options : m.options[i].k = "str"

\* the OneOf of the Name matchers that each take one string of the OneOf that the
\* value field of the Name matcher m holds
NamesOf(m) ==
    OneOf([i \in DOMAIN m.attrs.value.options |->
              Name(m.attrs.value.options[i], m.attrs.metadata)])

\* C22: a OneOf of strings as the matcher of a str-valued field succeeds iff the
\* value equals one of the strings, and a Name matcher whose value is such a
\* OneOf matches a node iff the OneOf of the Name matchers of the strings does.
C22_OneOfStrings ==
    Returned =>
       /\ (/\ fn = "_attribute_matches"
           /\ node.k = "str"
           /\ OneOfStrings(matcher))
          => ((ret.st = "match")
                 <=> \E i \in DOMAIN matcher.options : matcher.options[i].s = node.s)
       /\ (/\ fn \in {"extract", "matches"}
           /\ node.k = "CSTNode"
           /\ matcher.k = "Matcher"
           /\ matcher.cls = "Name"
           /\ OneOfStrings(matcher.attrs.value))
          => ((ret.st = "match")
                 <=> (extract(node, NamesOf(matcher), metadata_resolver).st = "match"))

\* what element i of the pattern list of the session captures where it stands:
\* the sequence from value i on is matched with the elements after i replaced by
\* DoNotCare
ElementCapture(i) ==
    _sequence_matches(
        SubSeq(node.items, i, Len(node.items)),
        <<matcher.items[i]>> \o [j \in 1..(Len(matcher.items) - i) |-> DoNotCare],
        Fetcher(metadata_resolver)).cap

\* the elements of the pattern list of the session that capture under name
Capturing(name) ==
    {i \in DOMAIN matcher.items : name \in DOMAIN ElementCapture(i)}

\* C23: when a pattern list without quantifiers matches a sequence and several
\* of its elements capture under one name, the name is bound to what the last
\* of these elements captured.
C23_LaterOverEarlier ==
    (/\ fn = "_sequence_matches"
     /\ ret.st = "match"
     /\ QuantifierFree(matcher.items))
    => \A name \in {"x", "y"} :
          Capturing(name) # {} =>
             /\ name \in DOMAIN ret.cap
             /\ \E i \in Capturing(name) :
                   /\ \A j \in Capturing(name) : j <= i
                   /\ ret.cap[name] = ElementCapture(i)[name]

\* two elements have captured different values under the same name
C23_Witness ==
    /\ fn = "_sequence_matches"
    /\ ret.st = "match"
    /\ QuantifierFree(matcher.items)
    /\ Capturing("x") = {1, 2}
    /\ ElementCapture(1)["x"] # ElementCapture(2)["x"]
    /\ ret.cap["x"] = ElementCapture(2)["x"]

\* some left-to-right alignment consumes every value of vs and satisfies every
\* matcher of ms: a quantifier (captured or not) takes a run of values that each
\* match what it wraps, at least n of them for AtLeastN and at most n for
\* AtMostN, and every other element takes one value
Aligns(vs, ms) ==
    IF ms = <<>> THEN vs = <<>>
    ELSE LET m == Unwrap(Head(ms))
         IN  IF m.k \in {"AtLeastN", "AtMostN"}
             THEN \E k \in 0..Len(vs) :
                     /\ IF m.k = "AtLeastN" THEN k >= m.n ELSE k <= m.n
                     /\ \A i \in 1..k :
                           _attribute_matches(vs[i], m.matcher,
                                              Fetcher(metadata_resolver)).st = "match"
                     /\ Aligns(SubSeq(vs, k + 1, Len(vs)), Tail(ms))
             ELSE /\ vs # <<>>
                  /\ ElementMatches(Head(vs), Head(ms))
                  /\ Aligns(Tail(vs), Tail(ms))

\* a quantifier of the pattern list is wrapped in a capture
CapturedQuantifier(ms) ==
    \E i \in DOMAIN ms : ms[i].k = "_ExtractMatchingNode" /\ IsQuantifier(ms[i])

TailAt(i) == SubSeq(node.items, i, Len(node.items))

\* what the pattern list from element i on captures on the values left for it,
\* with the capture of element i taken off
Continuation(i) ==
    _sequence_matches(TailAt(i),
                      <<matcher.items[i].matcher>>
                          \o SubSeq(matcher.items, i + 1, Len(matcher.items)),
                      Fetcher(metadata_resolver)).cap

C26_CapturedElementNode ==
    (fn = "_sequence_matches" /\ ret.st = "match")
    => \A i \in DOMAIN matcher.items :
          (/\ matcher.items[i].k = "_ExtractMatchingNode"
           /\ QuantifierFree(SubSeq(matcher.items, 1, i))
           /\ matcher.items[i].name \notin DOMAIN Continuation(i))
          => ret.cap[matcher.items[i].name] = node.items[i]

\* C27: AtLeastN and AtMostN cannot be built with a negative n, and every
\* quantifier sequence matching builds for a recursive call has n >= 0, as have
\* the quantifiers of the pattern list it was called with.
C27_CountsNotNegative ==
    /\ \A inner \in InnerMatchers : \A n \in (0 - MaxN)..(0 - 1) :
          IsError(AtLeastN(inner, n)) /\ IsError(AtMostN(inner, n))
    /\ (fn = "_sequence_matches" /\ Returned)
       => /\ \A q \in Derived(node.items, matcher.items, Fetcher(metadata_resolver)) :
                ~IsError(q) /\ q.n >= 0
          /\ \A i \in DOMAIN matcher.items :
                IsQuantifier(matcher.items[i]) => Unwrap(matcher.items[i]).n >= 0

\* a quantifier with n = 1 has taken a value and left a quantifier with n = 0
C27_Witness ==
    /\ fn = "_sequence_matches"
    /\ Returned
    /\ matcher.items # <<>>
    /\ Head(matcher.items).k \in {"AtLeastN", "AtMostN"}
    /\ Head(matcher.items).n = 1
    /\ \E q \in Derived(node.items, matcher.items, Fetcher(metadata_resolver)) : q.n = 0

----------------------------------------------------------------------------
(* Properties of the builders *)

\* what an argument contributes to the options of a combinator of kind
OptionsOf(x, kind) == IF x.k = kind THEN x.options ELSE <<x>>

\* a binary builder named in names was called and one argument is of a kind in
\* kinds
CalledWith(names, kinds) ==
    /\ built \in names
    /\ \E i \in 1..2 : operand[i].k \in kinds

RECURSIVE NoMixedOptions(_)
\* no OneOf or AllOf inside m has a OneOf or an AllOf among its options
NoMixedOptions(m) ==
    IF m.k \in {"OneOf", "AllOf"}
    THEN \A i \in DOMAIN m.options :
            /\ m.options[i].k \notin {"OneOf", "AllOf"}
            /\ NoMixedOptions(m.options[i])
    ELSE IF m.k \in {"_InverseOf", "_ExtractMatchingNode", "AtLeastN", "AtMostN"}
    THEN NoMixedOptions(m.matcher)
    ELSE TRUE

\* C11: OneOf (constructor or |) given an AllOf and AllOf (constructor or &)
\* given a OneOf raise; OneOf(OneOf(a, b), c) has the options (a, b, c) and
\* likewise AllOf; and no matcher that was built has a OneOf or AllOf among the
\* options of a OneOf or AllOf.
C11_CombinatorsFlat ==
    /\ CalledWith({"OneOf", "__or__"}, {"AllOf"}) => IsError(matcher)
    /\ CalledWith({"AllOf", "__and__"}, {"OneOf"}) => IsError(matcher)
    /\ (built \in {"OneOf", "AllOf"} /\ ~IsError(matcher))
       => /\ matcher.k = built
          /\ matcher.options = OptionsOf(operand[1], built) \o OptionsOf(operand[2], built)
    /\ ~IsError(matcher) => NoMixedOptions(matcher)

\* OneOf(OneOf(a, b), c) was built and has three options
C11_Witness ==
    /\ built = "OneOf"
    /\ operand[1].k = "OneOf"
    /\ operand[2].k = "Matcher"
    /\ ~IsError(matcher)
    /\ Len(matcher.options) = 3

RECURSIVE NoOptionOfKind(_, _)
\* no OneOf, AllOf or _InverseOf inside m holds a matcher of a kind in kinds
NoOptionOfKind(m, kinds) ==
    IF m.k \in {"OneOf", "AllOf"}
    THEN \A i \in DOMAIN m.options :
            /\ m.options[i].k \notin kinds
            /\ NoOptionOfKind(m.options[i], kinds)
    ELSE IF m.k = "_InverseOf"
    THEN m.matcher.k \notin kinds /\ NoOptionOfKind(m.matcher, kinds)
    ELSE IF m.k \in {"_ExtractMatchingNode", "AtLeastN", "AtMostN"}
    THEN NoOptionOfKind(m.matcher, kinds)
    ELSE TRUE

\* C12: every OneOf or AllOf (constructor, | or &, either side) given an AtLeastN
\* or AtMostN raises, and so does every negation (~ or DoesNotMatch) of one; no
\* matcher that was built holds a quantifier as an option or under a negation.
C12_QuantifierPlacement ==
    /\ CalledWith({"OneOf", "AllOf", "__or__", "__and__"}, {"AtLeastN", "AtMostN"})
       => IsError(matcher)
    /\ (built \in {"__invert__", "DoesNotMatch"}
           /\ operand[1].k \in {"AtLeastN", "AtMostN"})
       => IsError(matcher)
    /\ ~IsError(matcher) => NoOptionOfKind(matcher, {"AtLeastN", "AtMostN"})

\* C13: every AllOf (constructor or &, either side) given a capture raises, every
\* negation (~ or DoesNotMatch) of a capture raises, and SaveMatchedNode(AllOf)
\* is accepted.
C13_CaptureMisuse ==
    /\ CalledWith({"AllOf", "__and__"}, {"_ExtractMatchingNode"}) => IsError(matcher)
    /\ (built \in {"__invert__", "DoesNotMatch"}
           /\ operand[1].k = "_ExtractMatchingNode")
       => IsError(matcher)
    /\ (built = "SaveMatchedNode" /\ operand[1].k = "AllOf") => ~IsError(matcher)

RECURSIVE NegationNormal(_)
\* no _InverseOf inside m wraps a OneOf, an AllOf, an _InverseOf, a MatchIfTrue
\* or a MatchMetadataIfTrue
NegationNormal(m) ==
    IF m.k \in {"OneOf", "AllOf"}
    THEN \A i \in DOMAIN m.options : NegationNormal(m.options[i])
    ELSE IF m.k = "_InverseOf"
    THEN /\ m.matcher.k \notin {"OneOf", "AllOf", "_InverseOf", "MatchIfTrue",
                                "MatchMetadataIfTrue"}
         /\ NegationNormal(m.matcher)
    ELSE IF m.k \in {"_ExtractMatchingNode", "AtLeastN", "AtMostN"}
    THEN NegationNormal(m.matcher)
    ELSE TRUE

\* C28: no matcher that was built holds an _InverseOf of a OneOf, an AllOf, an
\* _InverseOf, a MatchIfTrue or a MatchMetadataIfTrue; the negation (~ or
\* DoesNotMatch) of a OneOf is the AllOf of its negated options, of an AllOf the
\* OneOf of its negated options, of an _InverseOf what it wraps, and of a
\* MatchIfTrue or MatchMetadataIfTrue the same matcher with the callable
\* inverted.
C28_NegationNormalForm ==
    ~IsError(matcher) =>
       /\ NegationNormal(matcher)
       /\ built \in {"__invert__", "DoesNotMatch"} =>
             LET o == operand[1]
             IN  /\ o.k = "OneOf" =>
                       matcher.k = "AllOf" /\ matcher.options = Negated(o)
                 /\ o.k = "AllOf" =>
                       matcher.k = "OneOf" /\ matcher.options = Negated(o)
                 /\ o.k = "_InverseOf" => matcher = o.matcher
                 /\ o.k = "MatchIfTrue" => matcher = MatchIfTrue(LambdaNot(o.func))
                 /\ o.k = "MatchMetadataIfTrue" =>
                       matcher = MatchMetadataIfTrue(o.key, LambdaNot(o.func))

\* the negation of a OneOf that holds a negation was built
C28_Witness ==
    /\ built \in {"__invert__", "DoesNotMatch"}
    /\ operand[1].k = "OneOf"
    /\ \E i \in DOMAIN operand[1].options : operand[1].options[i].k = "_InverseOf"
    /\ matcher.k = "AllOf"

----------------------------------------------------------------------------
(* Properties of findall and extractall *)

\* the nodes of the trees ns in pre-order, every tree before the next one
PreOrderAll(ns) ==
    IF ns = <<>> THEN <<>>
    ELSE <<Head(ns)>> \o PreOrderAll(Children(Head(ns)) \o Tail(ns))

\* the node tree.visit starts from
Root == IF node.k = "MetadataWrapper" THEN node.module ELSE node

\* findall and extractall return two empty lists without a visit
NothingToVisit ==
    \/ node.k \in {"RemovalSentinel", "MaybeSentinel"}
    \/ matcher.k \in {"AtLeastN", "AtMostN"}

\* the nodes of ns the matcher of the visitor matches
Matching(ns) ==
    SelectSeq(ns, LAMBDA n :
        _matches(n, finder.matcher, finder.metadata_lookup).st = "match")

\* C15: on_visit is called on the nodes of the tree in pre-order, each once and
\* none skipped after a match, and once findall is over every node was visited
\* and findall has returned the visited nodes that match, in the order of the
\* visits, so at most as many as the tree has nodes; a sentinel tree or a bare
\* quantifier gives the empty sequence.
C15_FindallPreOrder ==
    fn = "findall" =>
       IF NothingToVisit
       THEN visited = <<>> /\ ret = Return(<<>>)
       ELSE /\ visited = SubSeq(PreOrderAll(<<Root>>), 1, Len(visited))
            /\ Returned =>
                  /\ visited = PreOrderAll(<<Root>>)
                  /\ ret = Return(Matching(visited))
                  /\ Len(ret.value) <= Len(PreOrderAll(<<Root>>))

\* the same for the calls of findall that return
FindallReturns ==
    (fn = "findall" /\ ret.st = "raise") \/ C15_FindallPreOrder

\* a node and one of its descendants are both returned
FindallNested ==
    /\ fn = "findall"
    /\ ret.st = "return"
    /\ node = NestedCall
    /\ Len(ret.value) = 2
    /\ ret.value[1] = NestedCall

\* the nodes the visitor has found, which findall returns for the same arguments
Found == IF NothingToVisit THEN <<>> ELSE finder.found_nodes

\* C16: extractall returns as many capture maps as findall returns nodes for the
\* same tree, matcher and resolver, and its i-th capture map is what extract
\* returns for the i-th of these nodes, the same matcher and the same resolver.
C16_ExtractallParallel ==
    (fn = "extractall" /\ ret.st = "return")
    => /\ Len(ret.value) = Len(Found)
       /\ \A i \in DOMAIN ret.value :
             extract(Found[i], matcher, metadata_resolver)
                 = Match(ret.value[i], extract(Found[i], matcher, metadata_resolver).calls)

----------------------------------------------------------------------------
(* Properties of the fetcher of a MetadataWrapper *)

\* C29: since the fetcher was constructed wrapper.resolve was called at most
\* once with every provider; the dictionary holds exactly the providers it was
\* called with, each with the table the wrapper resolved; and a call of _fetch
\* returns what the table of its provider holds for its node, or the missing
\* sentinel when the table does not hold the node.
C29_ResolveOnce ==
    /\ \A p \in Providers :
          Cardinality({i \in DOMAIN resolve_calls : resolve_calls[i] = p}) <= 1
    /\ DOMAIN fetcher_metadata = {resolve_calls[i] : i \in DOMAIN resolve_calls}
    /\ \A p \in DOMAIN fetcher_metadata :
          fetcher_metadata[p] = resolve(metadata_resolver, p)
    /\ fn = "_fetch" =>
          /\ fetch_provider \in DOMAIN fetcher_metadata
          /\ ret = Return(IF node.id \in DOMAIN fetcher_metadata[fetch_provider]
                          THEN fetcher_metadata[fetch_provider][node.id]
                          ELSE _METADATA_MISSING_SENTINEL)
          /\ ret.value = Fetch(_construct_metadata_fetcher_wrapper(metadata_resolver),
                               fetch_provider, node)

\* a provider resolved before another one is looked up again, and the node is
\* not in its table
C29_Witness ==
    /\ fn = "_fetch"
    /\ resolve_calls = <<"P", "Q">>
    /\ fetch_provider = "P"
    /\ ret.value = _METADATA_MISSING_SENTINEL

----------------------------------------------------------------------------
(* Properties of the chains of nested calls *)

\* C30: matching terminates and is deterministic.  Every chain of nested calls
\* of _sequence_matches, _attribute_matches, _metadata_matches, _node_matches
\* and _matches, whatever the calls before each one returned, reaches a call
\* that makes no further call and returns, before the chain is MaxDepth deep;
\* a call makes finitely many calls, so the tree of the calls of a run is
\* finite.  What a call returns, outcome
\* and capture map, is the value of its function on its arguments.
C30_TerminatesDeterministic ==
    /\ <>Returned
    /\ [](Len(pending) < MaxDepth)
    /\ [](Returned =>
            ret = FrameResult(fn, node, matcher, Fetcher(metadata_resolver)))

\* a chain that began at a pattern with a captured ZeroOrMore has consumed the
\* nodes and the matchers and returned
C30_Witness ==
    /\ Returned
    /\ operand = List(<<SaveMatchedNode(ZeroOrMore(mInt), "x"),
                        SaveMatchedNode(mName, "x")>>)
    /\ fn = "_sequence_matches"
    /\ node.items = <<>>
    /\ matcher.items = <<>>

====
